---- MODULE Spec2Model ----
(***************************************************************************)
(* A model of the PyDTNN layer engine (src/NN_layer.py and companions):     *)
(* the layers' construct / initialize / forward / backward state machines,  *)
(* the composite blocks with numpy's reference semantics, the two           *)
(* convolution strategies and the batch-statistic synchronisation.          *)
(*                                                                         *)
(* Tensors are row-major flat sequences with their dimensions passed        *)
(* beside them, as numpy stores them; matrices are sequences of rows.       *)
(* Every object of the program is one record-valued variable.  Each         *)
(* subsystem has its own specification (SpecPool, SpecBlock, ...); the      *)
(* variables of the other subsystems stay at their idle value there.        *)
(***************************************************************************)
EXTENDS Integers, Sequences, FiniteSets, TLC

VARIABLES
    mp,        \* the MaxPool2D object: constructor fields, fields set by initialize, maxids
    mp_cache,  \* the lru_cache of MaxPool2D._dy_cols: <<key, buffer>> entries, least recent first
    mp_last,   \* the latest forward/backward call on mp: its argument, its buffer, its result
    mp_calls,  \* number of forward/backward calls made on mp (bounded by MaxCalls)
    fc,        \* the FC object: constructor fields, parameters, cached input, gradients
    fc_last,   \* the latest forward/backward call on fc: its argument and its result
    fc_calls,  \* number of forward/backward calls made on fc (bounded by MaxCalls)
    blk,       \* the AdditionBlock / ConcatenationBlock object with its child layers
    model_id,  \* model.id, the layer-id counter the blocks read and advance
    heap,      \* the numpy arrays alive during the block calls; an address is an index
    blk_last,  \* the latest forward/backward call on blk: references and values
    blk_calls, \* number of forward/backward calls made on blk (bounded by BlkMaxCalls)
    params,    \* the configuration the layers read: model.params.enable_conv_gemm, model.tensor_format
    conv,      \* the Conv2D object: constructor fields, bound forward/backward, parameters, caches
    conv_last, \* the latest call on conv: the operation, its arguments and its result
    conv_calls,\* number of calls made on conv and pool2d (bounded by ConvMaxCalls)
    pool2d,    \* the AbstractPool2DLayerCPU object: its bound forward/backward
    bn,        \* the BatchNormalization object of every process
    bn_proc,   \* every process's position in BatchNormalization.forward and its local values
    comm,      \* the communicator: the contributions posted to the reductions in progress
    bn_plan,   \* the run all processes execute: model.mode and the global batch of every forward call
    geo,       \* one output-size computation: hi, kh, pad, stride and, once computed, ho
    gl,        \* a layer with parameters inside a training loop: its type and the object
    gl_last,   \* the latest call on gl: the operation, its arguments and its result
    gl_calls,  \* number of forward/backward calls made on gl (bounded by GradMaxCalls)
    ds,        \* one pass over a dataset: nsamples, local_batch_size, nprocs, the shared index order s
    gen,       \* the batch_generator of every rank: its position and the batches it has yielded
    nb,        \* a composite block whose paths hold layers and composite blocks
    nb_id,     \* model.id while that block is constructed and initialized
    bg,        \* the BackgroundGenerator thread: its queue, its generator, its position in run
    cons,      \* the consumer of the BackgroundGenerator: its position in next, what it got
    es,        \* the EarlyStopping object
    es_model,  \* the model EarlyStopping stores weights of: the file and the calls made on it
    es_last    \* the latest on_epoch_end call: its arguments and the value it compared

poolVars == <<mp, mp_cache, mp_last, mp_calls>>

fcVars == <<fc, fc_last, fc_calls>>

blockVars == <<blk, model_id, heap, blk_last, blk_calls>>

convVars == <<params, conv, conv_last, conv_calls, pool2d>>

bnVars == <<bn, bn_proc, comm, bn_plan>>

geoVars == <<geo>>

gradVars == <<gl, gl_last, gl_calls>>

dataVars == <<ds, gen>>

idsVars == <<nb, nb_id>>

bgVars == <<bg, cons>>

esVars == <<es, es_model, es_last>>

\* The variables of the subsystems outside the layers' numerics.
lateVars == <<idsVars, bgVars, esVars>>

\* The variables of the subsystems that stand beside the layer objects.
restVars == <<geoVars, gradVars, dataVars, lateVars>>

vars == <<mp, mp_cache, mp_last, mp_calls, fc, fc_last, fc_calls,
          blk, model_id, heap, blk_last, blk_calls,
          params, conv, conv_last, conv_calls, pool2d, bn, bn_proc, comm, bn_plan, geo,
          gl, gl_last, gl_calls, ds, gen, nb, nb_id, bg, cons, es, es_model, es_last>>

\* The variables each subsystem leaves alone.
notPoolVars == <<fcVars, blockVars, convVars, bnVars, restVars>>

notFcVars == <<poolVars, blockVars, convVars, bnVars, restVars>>

notBlockVars == <<poolVars, fcVars, convVars, bnVars, restVars>>

notConvVars == <<poolVars, fcVars, blockVars, bnVars, restVars>>

notBnVars == <<poolVars, fcVars, blockVars, convVars, restVars>>

notGeoVars == <<poolVars, fcVars, blockVars, convVars, bnVars, gradVars, dataVars, lateVars>>

notGradVars == <<poolVars, fcVars, blockVars, convVars, bnVars, geoVars, dataVars, lateVars>>

notDataVars == <<poolVars, fcVars, blockVars, convVars, bnVars, geoVars, gradVars, lateVars>>

layerVars == <<poolVars, fcVars, blockVars, convVars, bnVars, geoVars, gradVars, dataVars>>

notIdsVars == <<layerVars, bgVars, esVars>>

notBgVars == <<layerVars, idsVars, esVars>>

notEsVars == <<layerVars, idsVars, bgVars>>

(***************************************************************************)
(* Bounds of the model.                                                    *)
(***************************************************************************)
MaxBatch == 2   \* batch sizes 1..MaxBatch
MaxSeed == 7    \* input tensors are the binary expansions of 0..MaxSeed
MaxGrad == 2    \* gradient tensors are g, 2g, 3g, ... for g in 1..MaxGrad
MaxCalls == 4   \* forward/backward calls per layer object
MaxWeight == 3  \* weight matrices number 1..MaxWeight
BlkMaxCalls == 2  \* forward/backward calls on a block
BlkMaxSeed == 3   \* block inputs are the binary expansions of 0..BlkMaxSeed
BlkMaxInits == 2  \* initialize calls on a block
MpMaxInits == 2   \* initialize calls on a pooling layer
GeoMaxSize == 4   \* input and filter sizes of the output-size computations
GeoMaxPad == 2    \* paddings of the output-size computations
GeoMaxStride == 3 \* strides of the output-size computations
GradMaxCalls == 4 \* forward/backward calls on the layer of a training loop
GradMaxBatch == 2 \* batch sizes of the training loop (batch number b has b samples)
DataMaxSamples == 5     \* samples of the dataset
DataMaxLocalBatch == 2  \* local batch sizes
DataMaxProcs == 2       \* ranks
DataMaxShift == 1       \* index orders a shuffle may leave: rotations by 0..DataMaxShift, both ways
GradMaxDy == 2    \* output gradients of the training loop
BatchSize == 2  \* the configured batch size (model.params.batch_size) of the cost estimates

None == "None"  \* the idle value of a variable no specification in force uses

(***************************************************************************)
(* Python values: None, an int, a numpy array (its elements in v).          *)
(***************************************************************************)
PyNone == [kind |-> "None"]

PyInt(n) == [kind |-> "int", v |-> n]

Arr(v) == [kind |-> "ndarray", v |-> v]

IsArr(p) == p.kind = "ndarray"

(***************************************************************************)
(* Arithmetic and sequence helpers.                                        *)
(***************************************************************************)
RECURSIVE SumTo(_, _)
\* f[1] + ... + f[n]
SumTo(f, n) == IF n = 0 THEN 0 ELSE f[n] + SumTo(f, n - 1)

RECURSIVE Pow2(_)
Pow2(n) == IF n = 0 THEN 1 ELSE 2 * Pow2(n - 1)

\* The input tensor number `seed` with n elements: element i is bit i-1 of seed.
XTensor(seed, n) == [i \in 1..n |-> (seed \div Pow2(i - 1)) % 2]

\* The gradient tensor number g with n elements: g, 2g, ..., n*g (no element is zero).
DyTensor(g, n) == [i \in 1..n |-> g * i]

\* The same tensors as (b, n) matrices, row-major.
XMatrix(seed, b, n) == [i \in 1..b |-> [j \in 1..n |-> XTensor(seed, b * n)[(i - 1) * n + j]]]

DyMatrix(g, b, n) == [i \in 1..b |-> [j \in 1..n |-> g * ((i - 1) * n + j)]]

\* The weight matrix number ws of shape (n, m) an initializer may return: ws on the diagonal;
\* off the diagonal 0 for an odd ws (a scaling by ws when n = m) and 1 for an even one.
WeightMatrix(ws, n, m) ==
    [i \in 1..n |-> [j \in 1..m |-> IF i = j THEN ws ELSE (ws + 1) % 2]]

\* numpy's a @ b for a (b, k) matrix and a (k, m) matrix.
MatMul(A, B) ==
    [i \in 1..Len(A) |-> [j \in 1..Len(B[1]) |->
        SumTo([k \in 1..Len(B) |-> A[i][k] * B[k][j]], Len(B))]]

\* numpy's a.T
Transpose(A) == [j \in 1..Len(A[1]) |-> [i \in 1..Len(A) |-> A[i][j]]]

\* numpy's a + v for a matrix a and a vector v, broadcast over the rows.
AddRow(A, v) == [i \in 1..Len(A) |-> [j \in 1..Len(A[i]) |-> A[i][j] + v[j]]]

\* numpy's a + b for two matrices of one shape.
MatAdd(A, B) == [i \in 1..Len(A) |-> [j \in 1..Len(A[i]) |-> A[i][j] + B[i][j]]]

\* np.sum(a, axis=0)
ColSum(A) == [j \in 1..Len(A[1]) |-> SumTo([i \in 1..Len(A) |-> A[i][j]], Len(A))]

Zeros(rows, cols) == [r \in 1..rows |-> [q \in 1..cols |-> 0]]

\* Python's floor(a / b) for b > 0 (src/NN_layer.py:177).
Floor(a, b) == a \div b

\* A slip in the output size: the quotient rounded up instead of down.
OutSize_RoundedUp(hi, kh, pad, stride) == -Floor(-(hi + 2 * pad - kh), stride) + 1

\* ho = floor((hi + 2*pad - kh) / stride) + 1
OutSize(hi, kh, pad, stride) == Floor(hi + 2 * pad - kh, stride) + 1

(***************************************************************************)
(* The spatial transform (NN_im2col_cython): im2col expands the padded,     *)
(* strided windows of x (N, C, H, W) into a (C*kh*kw, N*ho*wo) matrix whose *)
(* row is (c, ii, jj) and whose column is (n, yy, xx); col2im folds such a  *)
(* matrix back, summing the overlapping windows and dropping the padding.   *)
(***************************************************************************)
\* x[n, c, h, w] of a row-major (N, C, H, W) tensor, 0 in the padding; 0-based indices.
At4(x, C, H, W, n, c, h, w) ==
    IF h < 0 \/ h >= H \/ w < 0 \/ w >= W THEN 0
    ELSE x[((n * C + c) * H + h) * W + w + 1]

im2col_cython(x, N, C, H, W, kh, kw, vpadding, hpadding, vstride, hstride) ==
    LET ho == OutSize(H, kh, vpadding, vstride)
        wo == OutSize(W, kw, hpadding, hstride)
    IN  [r \in 1..(C * kh * kw) |-> [q \in 1..(N * ho * wo) |->
            LET c  == (r - 1) \div (kh * kw)
                ii == ((r - 1) % (kh * kw)) \div kw
                jj == (r - 1) % kw
                n  == (q - 1) \div (ho * wo)
                yy == ((q - 1) % (ho * wo)) \div wo
                xx == (q - 1) % wo
            IN  At4(x, C, H, W, n, c, vstride * yy + ii - vpadding, hstride * xx + jj - hpadding)]]

RECURSIVE SumCells(_, _)
\* The sum of cols[r][q] over the set S of <<r, q>> pairs.
SumCells(cols, S) ==
    IF S = {} THEN 0
    ELSE LET e == CHOOSE e \in S : TRUE
         IN  cols[e[1]][e[2]] + SumCells(cols, S \ {e})

col2im_cython(cols, N, C, H, W, kh, kw, vpadding, hpadding, vstride, hstride) ==
    LET ho == OutSize(H, kh, vpadding, vstride)
        wo == OutSize(W, kw, hpadding, hstride)
    IN  [i \in 1..(N * C * H * W) |->
            LET n == (i - 1) \div (C * H * W)
                c == ((i - 1) % (C * H * W)) \div (H * W)
                h == ((i - 1) % (H * W)) \div W
                w == (i - 1) % W
                S == { <<c * kh * kw + ii * kw + jj + 1, n * ho * wo + yy * wo + xx + 1>> :
                         <<ii, jj, yy, xx>> \in
                           { t \in (0..(kh - 1)) \X (0..(kw - 1)) \X (0..(ho - 1)) \X (0..(wo - 1)) :
                               /\ vstride * t[3] + t[1] - vpadding = h
                               /\ hstride * t[4] + t[2] - hpadding = w } }
            IN  SumCells(cols, S)]

\* numpy.argmax of column q of cols: the first row (0-based) holding the column's maximum.
ArgMaxCol(cols, q) ==
    CHOOSE r \in 0..(Len(cols) - 1) :
        /\ \A s \in 0..(Len(cols) - 1) : cols[s + 1][q] <= cols[r + 1][q]
        /\ \A s \in 0..(r - 1) : cols[s + 1][q] < cols[r + 1][q]

\* argmax_cython(cols, axis=0): the maxima and the (row, column) index pairs.
argmax_cython(cols) ==
    LET n == IF Len(cols) = 0 THEN 0 ELSE Len(cols[1])
    IN  [y |-> [q \in 1..n |-> cols[ArgMaxCol(cols, q) + 1][q]],
         maxids |-> [q \in 1..n |-> ArgMaxCol(cols, q)]]

(***************************************************************************)
(* MaxPool2D (src/NN_layer.py:318-379).                                    *)
(***************************************************************************)
\* The pooling layers the model constructs: pool_shape, padding, stride.
PoolCtorArgs ==
    { [pool_shape |-> <<1, 2>>, padding |-> 0, stride |-> 1],
      [pool_shape |-> <<2, 2>>, padding |-> 0, stride |-> 1],
      [pool_shape |-> <<1, 2>>, padding |-> 0, stride |-> 2],
      [pool_shape |-> <<0, 2>>, padding |-> 0, stride |-> 1],
      [pool_shape |-> <<3, 2>>, padding |-> 0, stride |-> 1] }

\* The prev_shape values (ci, hi, wi) initialize is called with.
PoolPrevShapes == { <<1, 1, 2>>, <<1, 2, 2>>, <<1, 1, 3>>, <<1, 2, 3>> }

\* MaxPool2D.__init__: integer padding and stride are used for both directions.
\* arg_pool_shape keeps the constructor's argument for the statements about it.
MaxPool2D_init(a) ==
    [pool_shape |-> a.pool_shape, arg_pool_shape |-> a.pool_shape,
     vpadding |-> a.padding, hpadding |-> a.padding,
     vstride |-> a.stride, hstride |-> a.stride,
     initialized |-> FALSE, need_dx |-> FALSE,
     ci |-> 0, hi |-> 0, wi |-> 0, kh |-> 0, kw |-> 0, ho |-> 0, wo |-> 0, co |-> 0,
     shape |-> <<>>, maxids |-> <<>>]

\* MaxPool2D.initialize(prev_shape, need_dx): the layer after the call.
MaxPool2D_initialize(l, prev_shape, need_dx) ==
    LET hi == prev_shape[2]
        wi == prev_shape[3]
        ps1 == IF l.pool_shape[1] = 0 THEN <<hi, l.pool_shape[2]>> ELSE l.pool_shape
        ps2 == IF ps1[2] = 0 THEN <<ps1[1], wi>> ELSE ps1
        ho == OutSize(hi, ps2[1], l.vpadding, l.vstride)
        wo == OutSize(wi, ps2[2], l.hpadding, l.hstride)
    IN  [l EXCEPT !.need_dx = need_dx, !.initialized = TRUE,
                  !.ci = prev_shape[1], !.hi = hi, !.wi = wi,
                  !.pool_shape = ps2, !.kh = ps2[1], !.kw = ps2[2],
                  !.ho = ho, !.wo = wo, !.co = prev_shape[1],
                  !.shape = <<prev_shape[1], ho, wo>>]

\* MaxPool2D.forward(x) on a batch of b samples: the output y and the recorded maxids.
MaxPool2D_forward(l, x, b) ==
    argmax_cython(im2col_cython(x, b * l.ci, 1, l.hi, l.wi, l.kh, l.kw,
                                l.vpadding, l.hpadding, l.vstride, l.hstride))

LruMaxSize == 4

\* The position of key in the cache, 0 when it is absent.
CacheFind(cache, key) ==
    IF \E i \in 1..Len(cache) : cache[i].key = key
    THEN CHOOSE i \in 1..Len(cache) : cache[i].key = key
    ELSE 0

\* Sequence s without its element i.
RemoveAt(s, i) == SubSeq(s, 1, i - 1) \o SubSeq(s, i + 1, Len(s))

\* MaxPool2D._dy_cols(dy_shape) under functools.lru_cache: the buffer it returns. A hit
\* returns the array object made by the first call with that shape, as backward left it.
MaxPool2D_dy_cols(l, cache, dy_shape) ==
    LET i == CacheFind(cache, dy_shape)
    IN  IF i > 0 THEN cache[i].buf
        ELSE Zeros(l.kh * l.kw, dy_shape[1] * dy_shape[2] * dy_shape[3] * dy_shape[4])

\* The cache after _dy_cols(dy_shape) returned an array that backward then left as buf:
\* the entry is the most recent one, and the least recent one is evicted when full.
CachePut(cache, dy_shape, buf) ==
    LET i == CacheFind(cache, dy_shape)
        rest == IF i > 0 THEN RemoveAt(cache, i)
                ELSE IF Len(cache) = LruMaxSize THEN Tail(cache) ELSE cache
    IN  Append(rest, [key |-> dy_shape, buf |-> buf])

\* dy_cols[self.maxids] = dy.flatten(): column q gets dy[q] in row maxids[q].
Scatter(buf, maxids, dy) ==
    [r \in 1..Len(buf) |-> [q \in 1..Len(buf[r]) |->
        IF maxids[q] = r - 1 THEN dy[q] ELSE buf[r][q]]]

\* MaxPool2D.backward(dy), dy of shape dy_shape: the column buffer it folds and its result.
MaxPool2D_backward(l, cache, dy, dy_shape) ==
    IF l.need_dx
    THEN LET dy_cols == Scatter(MaxPool2D_dy_cols(l, cache, dy_shape), l.maxids, dy)
         IN  [dy_cols |-> Arr(dy_cols),
              dx |-> Arr(col2im_cython(dy_cols, dy_shape[1] * l.ci, 1, l.hi, l.wi, l.kh, l.kw,
                                       l.vpadding, l.hpadding, l.vstride, l.hstride)),
              cache |-> CachePut(cache, dy_shape, dy_cols)]
    ELSE [dy_cols |-> PyNone, dx |-> PyNone, cache |-> cache]

MpIdle == /\ mp = None /\ mp_cache = <<>> /\ mp_last = None /\ mp_calls = 0

FcIdle == /\ fc = None /\ fc_last = None /\ fc_calls = 0

BlockIdle == /\ blk = None /\ model_id = 0 /\ heap = <<>> /\ blk_last = None /\ blk_calls = 0

ConvIdle ==
    /\ params = None /\ conv = None /\ conv_last = None /\ conv_calls = 0 /\ pool2d = None

BnIdle == /\ bn = None /\ bn_proc = None /\ comm = None /\ bn_plan = None

GeoIdle == geo = None

GradIdle == /\ gl = None /\ gl_last = None /\ gl_calls = 0

DataIdle == /\ ds = None /\ gen = None

IdsIdle == /\ nb = None /\ nb_id = 0

BgIdle == /\ bg = None /\ cons = None

EsIdle == /\ es = None /\ es_model = None /\ es_last = None

LateIdle == IdsIdle /\ BgIdle /\ EsIdle

RestIdle == GeoIdle /\ GradIdle /\ DataIdle /\ LateIdle

LayersIdle ==
    /\ MpIdle /\ FcIdle /\ BlockIdle /\ ConvIdle /\ BnIdle
    /\ GeoIdle /\ GradIdle /\ DataIdle

PoolInit ==
    /\ \E a \in PoolCtorArgs : mp = MaxPool2D_init(a)
    /\ mp_cache = <<>>
    /\ mp_last = [op |-> "init", b |-> 0, inits |-> 0]
    /\ mp_calls = 0
    /\ FcIdle
    /\ BlockIdle
    /\ ConvIdle
    /\ BnIdle
    /\ RestIdle

\* initialize(prev_shape, need_dx), before any forward/backward; the same layer may be
\* initialized again. The call record keeps the prev_shape of the call.
MpInitialize ==
    /\ mp_calls = 0 /\ mp_last.inits < MpMaxInits
    /\ \E ps \in PoolPrevShapes, nd \in BOOLEAN :
         /\ mp' = MaxPool2D_initialize(mp, ps, nd)
         /\ mp_last' = [op |-> "initialize", b |-> 0, inits |-> mp_last.inits + 1,
                        prev_shape |-> ps]
    /\ UNCHANGED <<mp_cache, mp_calls>>
    /\ UNCHANGED notPoolVars

\* y = forward(x) on a batch of b samples.
MpForward ==
    /\ mp.initialized
    /\ mp.ho >= 1 /\ mp.wo >= 1
    /\ mp_calls < MaxCalls
    /\ \E b \in 1..MaxBatch, seed \in 0..MaxSeed :
         LET x == XTensor(seed, b * mp.ci * mp.hi * mp.wi)
             r == MaxPool2D_forward(mp, x, b)
         IN  /\ mp' = [mp EXCEPT !.maxids = r.maxids]
             /\ mp_last' = [op |-> "forward", b |-> b, x |-> x, y |-> r.y]
    /\ mp_calls' = mp_calls + 1
    /\ UNCHANGED mp_cache
    /\ UNCHANGED notPoolVars

\* dx = backward(dy), dy having the shape of the output of the latest forward.
MpBackward ==
    /\ mp.initialized
    /\ Len(mp.maxids) > 0
    /\ mp_calls < MaxCalls
    /\ \E g \in 1..MaxGrad :
         LET b == Len(mp.maxids) \div (mp.ci * mp.ho * mp.wo)
             dy_shape == <<b, mp.co, mp.ho, mp.wo>>
             dy == DyTensor(g, Len(mp.maxids))
             r == MaxPool2D_backward(mp, mp_cache, dy, dy_shape)
         IN  /\ mp_cache' = r.cache
             /\ mp_last' = [op |-> "backward", b |-> b, dy |-> dy,
                            dy_cols |-> r.dy_cols, dx |-> r.dx]
    /\ mp_calls' = mp_calls + 1
    /\ UNCHANGED mp
    /\ UNCHANGED notPoolVars

PoolNext == MpInitialize \/ MpForward \/ MpBackward

SpecPool == PoolInit /\ [][PoolNext]_vars

(***************************************************************************)
(* C1: the column buffer that MaxPool2D.backward(dy) folds holds dy[q] at   *)
(* the arg-max row recorded for column q by the latest forward, and zero    *)
(* at every other position.                                                *)
(***************************************************************************)
C1_DyColsIsScatterOfDy ==
    (mp_last.op = "backward" /\ mp.need_dx) =>
        /\ IsArr(mp_last.dy_cols)
        /\ \A r \in 1..Len(mp_last.dy_cols.v) : \A q \in 1..Len(mp_last.dy) :
            mp_last.dy_cols.v[r][q] = IF mp.maxids[q] = r - 1 THEN mp_last.dy[q] ELSE 0

(***************************************************************************)
(* FC (src/NN_layer.py:74-127).                                            *)
(***************************************************************************)
\* The FC layers the model constructs: shape (fan_out,), use_bias, biases_initializer.
FCCtorArgs ==
    { [shape |-> <<m>>, use_bias |-> ub, biases_initializer |-> bi] :
        m \in {2, 3}, ub \in BOOLEAN, bi \in {"zeros", "ones"} }

\* The prev_shape values (fan_in,) FC.initialize is called with.
FCPrevShapes == { <<2>>, <<3>> }

\* NN_initializer.zeros / NN_initializer.ones for a vector of n elements.
InitVector(name, n) == [j \in 1..n |-> IF name = "ones" THEN 1 ELSE 0]

\* FC.__init__
FC_init(a) ==
    [type |-> "FC", shape |-> a.shape, prev_shape |-> <<>>, use_bias |-> a.use_bias,
     biases_initializer |-> a.biases_initializer,
     grad_vars |-> IF a.use_bias THEN {"dw", "db"} ELSE {"dw"},
     initialized |-> FALSE, need_dx |-> FALSE,
     weights |-> <<>>, biases |-> <<>>, nparams |-> 0, fwd_time |-> 0, bwd_time |-> 0,
     x |-> PyNone, dw |-> PyNone, db |-> PyNone, id |-> 0]

\* NN_sim.matmul_time(m, n, k, ...): the cost estimate, here the multiply-add count.
matmul_time(m, n, k) == m * n * k

\* FC.initialize(prev_shape, need_dx) with the weights the initializer returned (number ws).
FC_initialize(l, prev_shape, need_dx, ws, batch_size) ==
    LET w == WeightMatrix(ws, prev_shape[1], l.shape[1])
    IN  [l EXCEPT !.need_dx = need_dx, !.initialized = TRUE, !.prev_shape = prev_shape,
                  !.weights = w,
                  !.biases = IF l.use_bias THEN InitVector(l.biases_initializer, l.shape[1])
                             ELSE l.biases,
                  !.nparams = prev_shape[1] * l.shape[1] + (IF l.use_bias THEN l.shape[1] ELSE 0),
                  !.fwd_time = matmul_time(batch_size, l.shape[1], prev_shape[1]),
                  !.bwd_time = IF need_dx
                               THEN matmul_time(prev_shape[1], l.shape[1], batch_size)
                                    + matmul_time(batch_size, prev_shape[1], l.shape[1])
                               ELSE 0]

\* The value FC.forward(x) returns: `res + self.biases if self.use_bias else 0`.
FC_forward(l, x) ==
    LET res == MatMul(x, l.weights)
    IN  IF l.use_bias THEN Arr(AddRow(res, l.biases)) ELSE PyInt(0)

\* A variant of FC.backward that adds the new weight gradient to the one already there.
FC_backward_Accumulating(l, x, dy) ==
    [dw |-> IF IsArr(l.dw) THEN Arr(MatAdd(l.dw.v, MatMul(Transpose(x), dy)))
            ELSE Arr(MatMul(Transpose(x), dy)),
     db |-> IF l.use_bias THEN Arr(ColSum(dy)) ELSE l.db,
     dx |-> IF l.need_dx THEN Arr(MatMul(dy, Transpose(l.weights))) ELSE PyNone]

\* FC.backward(dy) with self.x = x: the gradients it sets and the value it returns.
FC_backward(l, x, dy) ==
    [dw |-> Arr(MatMul(Transpose(x), dy)),
     db |-> IF l.use_bias THEN Arr(ColSum(dy)) ELSE l.db,
     dx |-> IF l.need_dx THEN Arr(MatMul(dy, Transpose(l.weights))) ELSE PyNone]

FcInit ==
    /\ \E a \in FCCtorArgs : fc = FC_init(a)
    /\ fc_last = [op |-> "init"]
    /\ fc_calls = 0
    /\ MpIdle
    /\ BlockIdle
    /\ ConvIdle
    /\ BnIdle
    /\ RestIdle

FcInitialize ==
    /\ ~fc.initialized
    /\ \E ps \in FCPrevShapes, nd \in BOOLEAN, ws \in 1..MaxWeight :
         fc' = FC_initialize(fc, ps, nd, ws, BatchSize)
    /\ fc_last' = [op |-> "initialize"]
    /\ UNCHANGED fc_calls
    /\ UNCHANGED notFcVars

FcForward ==
    /\ fc.initialized
    /\ fc_calls < MaxCalls
    /\ \E b \in 1..MaxBatch, seed \in 0..MaxSeed :
         LET x == XMatrix(seed, b, fc.prev_shape[1])
         IN  /\ fc' = [fc EXCEPT !.x = Arr(x)]
             /\ fc_last' = [op |-> "forward", x |-> x, y |-> FC_forward(fc, x)]
    /\ fc_calls' = fc_calls + 1
    /\ UNCHANGED notFcVars

\* backward(dy), dy having as many rows as the input of the latest forward.
FcBackward ==
    /\ fc.initialized
    /\ IsArr(fc.x)
    /\ fc_calls < MaxCalls
    /\ \E g \in 1..MaxGrad :
         LET dy == DyMatrix(g, Len(fc.x.v), fc.shape[1])
             r == FC_backward(fc, fc.x.v, dy)
         IN  /\ fc' = [fc EXCEPT !.dw = r.dw, !.db = r.db]
             /\ fc_last' = [op |-> "backward", dy |-> dy, dx |-> r.dx]
    /\ fc_calls' = fc_calls + 1
    /\ UNCHANGED notFcVars

FcNext == FcInitialize \/ FcForward \/ FcBackward

SpecFC == FcInit /\ [][FcNext]_vars

(***************************************************************************)
(* C6: FC.forward(x) returns x.W plus the broadcast bias when use_bias is   *)
(* true, and x.W when use_bias is false.                                   *)
(***************************************************************************)
C6_ForwardIsXWPlusBias ==
    fc_last.op = "forward" =>
        /\ IsArr(fc_last.y)
        /\ fc_last.y.v = IF fc.use_bias
                          THEN AddRow(MatMul(fc_last.x, fc.weights), fc.biases)
                          ELSE MatMul(fc_last.x, fc.weights)

(***************************************************************************)
(* numpy arrays as objects.  heap[a] is the (b, n) matrix at address a.  A  *)
(* reference names the columns lo+1..hi of one array: the array itself, a   *)
(* reshape of it (a view of the same memory) or one piece of np.split.      *)
(***************************************************************************)
Ref(a, lo, hi) == [a |-> a, lo |-> lo, hi |-> hi]

\* The value seen through a reference.
Deref(h, r) == [i \in 1..Len(h[r.a]) |-> SubSeq(h[r.a][i], r.lo + 1, r.hi)]

\* A new array holding val: the heap after the allocation and the reference to the array.
Alloc(h, val) == [heap |-> Append(h, val), ref |-> Ref(Len(h) + 1, 0, Len(val[1]))]

\* `r += val` on an array: numpy adds in place, into the memory r refers to.
IAdd(h, r, val) ==
    [h EXCEPT ![r.a] = [i \in 1..Len(h[r.a]) |-> [j \in 1..Len(h[r.a][i]) |->
        IF j > r.lo /\ j <= r.hi THEN h[r.a][i][j] + val[i][j - r.lo] ELSE h[r.a][i][j]]]]

\* A reference held in a Python variable or attribute.
ArrRef(r) == [kind |-> "ndarray", ref |-> r]

(***************************************************************************)
(* Flatten (src/NN_layer.py:466-481).                                      *)
(***************************************************************************)
RECURSIVE Prod(_)
\* np.prod of a shape tuple
Prod(shape) == IF shape = <<>> THEN 1 ELSE Head(shape) * Prod(Tail(shape))

Flatten_init ==
    [type |-> "Flatten", shape |-> <<>>, prev_shape |-> <<>>, use_bias |-> FALSE,
     biases_initializer |-> "zeros", grad_vars |-> {},
     initialized |-> FALSE, need_dx |-> FALSE,
     weights |-> <<>>, biases |-> <<>>, nparams |-> 0, fwd_time |-> 0, bwd_time |-> 0,
     x |-> PyNone, dw |-> PyNone, db |-> PyNone, id |-> 0]

Flatten_initialize(l, prev_shape, need_dx) ==
    [l EXCEPT !.need_dx = need_dx, !.initialized = TRUE,
              !.shape = <<Prod(prev_shape)>>, !.prev_shape = prev_shape]

(***************************************************************************)
(* Child layers of a block, called on array objects.                       *)
(***************************************************************************)
Layer_init(d) ==
    IF d.type = "FC"
    THEN FC_init([shape |-> d.shape, use_bias |-> TRUE, biases_initializer |-> "zeros"])
    ELSE Flatten_init

Layer_initialize(l, prev_shape, need_dx, ws, batch_size) ==
    IF l.type = "FC" THEN FC_initialize(l, prev_shape, need_dx, ws, batch_size)
    ELSE Flatten_initialize(l, prev_shape, need_dx)

\* FC.forward on array objects: self.x = x keeps the reference r, the result is the new array a.
FCForwardResult(l, r, a) == [heap |-> a.heap, l |-> [l EXCEPT !.x = ArrRef(r)], out |-> a.ref]

\* FC.backward on array objects: the gradients g are stored, dx is the new array a.
FCBackwardResult(l, g, a) == [heap |-> a.heap, l |-> [l EXCEPT !.dw = g.dw, !.db = g.db], out |-> a.ref]

FCBackwardAlloc(h, l, g) == FCBackwardResult(l, g, Alloc(h, g.dx.v))

\* l.forward(x), x the array object at reference r: FC keeps the reference in self.x and
\* returns a new array; Flatten returns x.reshape(...), a view of x's memory.
Layer_forward(h, l, r) ==
    IF l.type = "FC"
    THEN FCForwardResult(l, r, Alloc(h, FC_forward(l, Deref(h, r)).v))
    ELSE [heap |-> h, l |-> l, out |-> r]

\* l.backward(dy), dy the array object at reference r: FC reads self.x as it is now and
\* returns a new array; Flatten returns dy.reshape(...), a view of dy's memory.
Layer_backward(h, l, r) ==
    IF l.type = "FC"
    THEN FCBackwardAlloc(h, l, FC_backward(l, Deref(h, l.x.ref), Deref(h, r)))
    ELSE [heap |-> h, l |-> l, out |-> r]

RECURSIVE ForwardPath(_, _, _, _)
RECURSIVE ForwardPathStep(_, _, _)
\* `for l in p: x[i] = l.forward(x[i])` from layer i on.
ForwardPath(h, p, r, i) ==
    IF i > Len(p) THEN [heap |-> h, p |-> p, out |-> r]
    ELSE ForwardPathStep(p, i, Layer_forward(h, p[i], r))

\* The rest of the loop after layer i returned s.
ForwardPathStep(p, i, s) == ForwardPath(s.heap, [p EXCEPT ![i] = s.l], s.out, i + 1)

RECURSIVE BackwardPath(_, _, _, _)
RECURSIVE BackwardPathStep(_, _, _)
\* `for l in reversed(p): dx[i] = l.backward(dx[i])` from layer i down.
BackwardPath(h, p, r, i) ==
    IF i = 0 THEN [heap |-> h, p |-> p, out |-> r]
    ELSE BackwardPathStep(p, i, Layer_backward(h, p[i], r))

\* The rest of the loop after layer i returned s.
BackwardPathStep(p, i, s) == BackwardPath(s.heap, [p EXCEPT ![i] = s.l], s.out, i - 1)

(***************************************************************************)
(* AdditionBlock and ConcatenationBlock (src/NN_layer.py:570-714).         *)
(***************************************************************************)
FCd(m) == [type |-> "FC", shape |-> <<m>>]

Fld == [type |-> "Flatten", shape |-> <<>>]

\* The blocks the model constructs: the kind and the paths, each a list of layers.
BlockCtorArgs ==
    { [kind |-> "add", paths |-> <<<<FCd(3)>>, <<FCd(3)>>>>],
      [kind |-> "add", paths |-> <<<<>>, <<FCd(3)>>>>],
      [kind |-> "add", paths |-> <<<<FCd(3), FCd(3)>>, <<>>>>],
      [kind |-> "add", paths |-> <<<<>>, <<FCd(3)>>, <<FCd(3)>>>>],
      [kind |-> "add", paths |-> <<<<Fld>>, <<FCd(3)>>, <<FCd(3)>>>>],
      [kind |-> "add", paths |-> <<<<FCd(3)>>, <<FCd(3)>>, <<FCd(3), Fld>>>>],
      [kind |-> "add", paths |-> <<<<FCd(2)>>, <<FCd(3)>>>>],
      [kind |-> "concat", paths |-> <<<<FCd(4)>>, <<FCd(8)>>>>],
      [kind |-> "concat", paths |-> <<<<FCd(1)>>, <<FCd(2)>>, <<FCd(1), Fld>>>>],
      [kind |-> "concat", paths |-> <<<<>>, <<FCd(2)>>>>],
      [kind |-> "concat", paths |-> <<<<Fld>>, <<FCd(2)>>, <<>>>>],
      [kind |-> "concat", paths |-> <<<<>>, <<Fld>>>>],
      [kind |-> "concat", paths |-> <<<<>>, <<>>>>],
      [kind |-> "add", paths |-> <<<<>>, <<Fld>>>>] }

\* The prev_shape values a block's initialize is called with: (features,) or (ci, hi, wi).
BlockPrevShapes == { <<3>>, <<3, 1, 1>> }

\* AdditionBlock.__init__ / ConcatenationBlock.__init__ (nparams and the cost estimates
\* start at 0 in the Layer base class). arg_need_dx records the need_dx argument of the
\* latest initialize, which the blocks themselves drop.
Block_init(a) ==
    [kind |-> a.kind,
     paths |-> [i \in 1..Len(a.paths) |-> [j \in 1..Len(a.paths[i]) |-> Layer_init(a.paths[i][j])]],
     initialized |-> FALSE, failed |-> FALSE, arg_need_dx |-> FALSE,
     prev_shape |-> <<>>, out_shapes |-> <<>>, shape |-> <<>>, out_co |-> <<>>, idx_co |-> <<>>,
     nparams |-> 0, fwd_time |-> 0, bwd_time |-> 0]

\* `self.fwd_time += l.fwd_time` and its two companions, on the totals r of a path.
AddCosts(r, l) ==
    [r EXCEPT !.fwd_time = @ + l.fwd_time, !.bwd_time = @ + l.bwd_time,
              !.nparams = @ + l.nparams]

RECURSIVE InitializePath(_, _, _, _, _, _)
RECURSIVE InitializePathStep(_, _, _, _, _, _)
\* The inner loop of initialize over the layers of one path, from layer i on: the layers
\* after their initialize, the path's output shape and what the block adds to its totals.
\* Layer i gets the id model.id + i and is initialized with need_dx = True.
InitializePath(p, i, prev_shape, id, ws, batch_size) ==
    IF i > Len(p)
    THEN [p |-> p, shape |-> prev_shape, fwd_time |-> 0, bwd_time |-> 0, nparams |-> 0]
    ELSE InitializePathStep(p, i, id, ws, batch_size,
             [Layer_initialize(p[i], prev_shape, TRUE, ((ws + i - 2) % MaxWeight) + 1,
                               batch_size) EXCEPT !.id = id + (i - 1)])

\* The rest of the inner loop after layer i became l.
InitializePathStep(p, i, id, ws, batch_size, l) ==
    AddCosts(InitializePath([p EXCEPT ![i] = l], i + 1, l.shape, id, ws, batch_size), l)

RECURSIVE InitializePaths(_, _, _, _, _)
RECURSIVE InitializePathsStep(_, _, _, _, _, _)
\* The outer loop of initialize over the paths, from path i on: every path starts from the
\* block's prev_shape, and model.id advances by the path's length.
InitializePaths(b, i, id, wsel, batch_size) ==
    IF i > Len(b.paths) THEN [b |-> b, id |-> id]
    ELSE InitializePathsStep(b, i, id, wsel, batch_size,
             InitializePath(b.paths[i], 1, b.prev_shape, id, wsel[i], batch_size))

\* The rest of the outer loop after path i gave r.
InitializePathsStep(b, i, id, wsel, batch_size, r) ==
    InitializePaths([AddCosts(b, r) EXCEPT !.paths[i] = r.p,
                                           !.out_shapes = Append(@, r.shape)],
                    i + 1, id + Len(b.paths[i]), wsel, batch_size)

\* A slip in the boundaries: the channel counts themselves instead of their running sums.
CumSum_NoRunningSum(v) == v

\* np.cumsum
CumSum(v) == [i \in 1..Len(v) |-> SumTo(v, i)]

\* A slip in the end of initialize: the shape is assigned without the assertion.
AdditionBlock_finish_NoAssert(r) ==
    [b |-> [r.b EXCEPT !.shape = r.b.out_shapes[1], !.initialized = TRUE, !.failed = FALSE],
     id |-> r.id - 1]

\* The end of AdditionBlock.initialize, r the block and model.id after the loops.
AdditionBlock_finish(r) ==
    [b |-> IF \A i \in 1..Len(r.b.out_shapes) : r.b.out_shapes[i] = r.b.out_shapes[1]
           THEN [r.b EXCEPT !.shape = r.b.out_shapes[1], !.initialized = TRUE,
                            !.failed = FALSE]
           ELSE [r.b EXCEPT !.failed = TRUE, !.initialized = FALSE],
     id |-> r.id - 1]

\* The channel counts of the paths: [s[0] for s in self.out_shapes].
OutCo(out_shapes) == [i \in 1..Len(out_shapes) |-> out_shapes[i][1]]

\* The end of ConcatenationBlock.initialize, r the block and model.id after the loops.
ConcatenationBlock_finish(r, out_co) ==
    [b |-> IF \A i \in 1..Len(r.b.out_shapes) :
                 Tail(r.b.out_shapes[i]) = Tail(r.b.out_shapes[1])
           THEN [r.b EXCEPT !.out_co = out_co, !.idx_co = CumSum(out_co),
                            !.shape = <<SumTo(out_co, Len(out_co))>>
                                      \o Tail(r.b.out_shapes[1]),
                            !.initialized = TRUE, !.failed = FALSE]
           ELSE [r.b EXCEPT !.failed = TRUE, !.initialized = FALSE],
     id |-> r.id - 1]

ConcatenationBlock_loops(r) == ConcatenationBlock_finish(r, OutCo(r.b.out_shapes))

\* AdditionBlock.initialize(prev_shape, need_dx): need_dx is overwritten with True before
\* the children are initialized; the assertion on the path shapes ends the call.
AdditionBlock_initialize(b, prev_shape, need_dx, id, wsel, batch_size) ==
    AdditionBlock_finish(
        InitializePaths([b EXCEPT !.out_shapes = <<>>, !.prev_shape = prev_shape,
                                  !.arg_need_dx = need_dx],
                        1, id, wsel, batch_size))

\* ConcatenationBlock.initialize(prev_shape, need_dx)
ConcatenationBlock_initialize(b, prev_shape, need_dx, id, wsel, batch_size) ==
    ConcatenationBlock_loops(
        InitializePaths([b EXCEPT !.out_shapes = <<>>, !.prev_shape = prev_shape,
                                  !.arg_need_dx = need_dx],
                        1, id, wsel, batch_size))

\* The log of a block call with one more path: what the path was given and what it returned.
LogPath(log, given, returned) ==
    [handed |-> Append(log.handed, given), outs |-> Append(log.outs, returned)]

RECURSIVE AdditionLoop(_, _, _, _, _, _)
RECURSIVE AdditionLoopStep(_, _, _, _, _, _, _)
\* The loop of AdditionBlock.forward (dir = "forward") and of AdditionBlock.backward and
\* ConcatenationBlock.backward (dir = "backward") from path i on. xs is the list x (dx);
\* handed[i] and outs[i] are the values path i was given and returned, at that moment.
AdditionLoop(dir, h, b, xs, i, log) ==
    IF i > Len(b.paths) THEN [heap |-> h, b |-> b, xs |-> xs, log |-> log]
    ELSE AdditionLoopStep(dir, h, b, xs, i, log,
             IF dir = "forward" THEN ForwardPath(h, b.paths[i], xs[i], 1)
             ELSE BackwardPath(h, b.paths[i], xs[i], Len(b.paths[i])))

\* The rest of the loop after path i gave s: `if i > 0: x[0] += x[i]`.
AdditionLoopStep(dir, h, b, xs, i, log, s) ==
    AdditionLoop(dir,
                 IF i > 1 THEN IAdd(s.heap, xs[1], Deref(s.heap, s.out)) ELSE s.heap,
                 [b EXCEPT !.paths[i] = s.p], [xs EXCEPT ![i] = s.out], i + 1,
                 LogPath(log, Deref(h, xs[i]), Deref(s.heap, s.out)))

RECURSIVE ConcatenationForward(_, _, _, _, _)
RECURSIVE ConcatenationForwardStep(_, _, _, _, _, _)
\* The loop of ConcatenationBlock.forward from path i on.
ConcatenationForward(h, b, xs, i, log) ==
    IF i > Len(b.paths) THEN [heap |-> h, b |-> b, xs |-> xs, log |-> log]
    ELSE ConcatenationForwardStep(h, b, xs, i, log, ForwardPath(h, b.paths[i], xs[i], 1))

\* The rest of the loop after path i gave s.
ConcatenationForwardStep(h, b, xs, i, log, s) ==
    ConcatenationForward(s.heap, [b EXCEPT !.paths[i] = s.p], [xs EXCEPT ![i] = s.out], i + 1,
                         LogPath(log, Deref(h, xs[i]), Deref(s.heap, s.out)))

RECURSIVE Concatenate(_, _)
\* np.concatenate(vals, axis=1) of the first k matrices of vals.
Concatenate(vals, k) ==
    IF k = 1 THEN vals[1]
    ELSE [i \in 1..Len(vals[k]) |-> Concatenate(vals, k - 1)[i] \o vals[k][i]]

\* np.split(dy, idx[:-1], axis=1) of the array at reference r: views of its column ranges
\* [0, idx[1]), [idx[1], idx[2]), ..., [idx[k-1], end).
Split(r, idx) ==
    [i \in 1..Len(idx) |->
        Ref(r.a, r.lo + (IF i = 1 THEN 0 ELSE idx[i - 1]),
                 IF i = Len(idx) THEN r.hi ELSE r.lo + idx[i])]

\* `return x[0]` (`return dx[0]`) after the loop ended in s.
ReturnFirst(s) == [heap |-> s.heap, b |-> s.b, log |-> s.log, ret |-> s.xs[1]]

EmptyLog == [handed |-> <<>>, outs |-> <<>>]

\* x = [x] * len(self.paths): every entry is the same array object.
Repeat(r, k) == [i \in 1..k |-> r]

\* AdditionBlock.forward(x), x the array at reference r.
AdditionBlock_forward(h, b, r) ==
    ReturnFirst(AdditionLoop("forward", h, b, Repeat(r, Len(b.paths)), 1, EmptyLog))

\* AdditionBlock.backward(dy), dy the array at reference r.
AdditionBlock_backward(h, b, r) ==
    ReturnFirst(AdditionLoop("backward", h, b, Repeat(r, Len(b.paths)), 1, EmptyLog))

\* `return np.concatenate(x, axis=1)` after the loop ended in s: a is the new array.
ReturnNew(s, a) == [heap |-> a.heap, b |-> s.b, log |-> s.log, ret |-> a.ref]

ReturnConcatenation(s) ==
    ReturnNew(s, Alloc(s.heap, Concatenate([i \in 1..Len(s.xs) |-> Deref(s.heap, s.xs[i])],
                                           Len(s.xs))))

\* ConcatenationBlock.forward(x)
ConcatenationBlock_forward(h, b, r) ==
    ReturnConcatenation(ConcatenationForward(h, b, Repeat(r, Len(b.paths)), 1, EmptyLog))

\* ConcatenationBlock.backward(dy)
ConcatenationBlock_backward(h, b, r) ==
    ReturnFirst(AdditionLoop("backward", h, b, Split(r, b.idx_co), 1, EmptyLog))

BlockInit ==
    /\ \E a \in BlockCtorArgs : blk = Block_init(a)
    /\ model_id = 1
    /\ heap = <<>>
    /\ blk_last = [op |-> "init", inits |-> 0]
    /\ blk_calls = 0
    /\ MpIdle
    /\ FcIdle
    /\ ConvIdle
    /\ BnIdle
    /\ RestIdle

\* The weights the initializer returns for the first layer of each path: numbers w, w+1, ...
PathWeights(w) == [i \in 1..Len(blk.paths) |-> ((w + i - 2) % MaxWeight) + 1]

\* The block call on the caller's new array a.
Block_forward(b, a) ==
    IF b.kind = "add" THEN AdditionBlock_forward(a.heap, b, a.ref)
    ELSE ConcatenationBlock_forward(a.heap, b, a.ref)

Block_backward(b, a) ==
    IF b.kind = "add" THEN AdditionBlock_backward(a.heap, b, a.ref)
    ELSE ConcatenationBlock_backward(a.heap, b, a.ref)

\* An FC layer is fed a (features,) input: with a (ci, hi, wi) prev_shape every path is
\* empty or starts with a Flatten.
FlatFed(b, ps) ==
    IF Len(ps) = 1 THEN TRUE
    ELSE \A i \in 1..Len(b.paths) :
             IF Len(b.paths[i]) = 0 THEN TRUE ELSE b.paths[i][1].type = "Flatten"

\* initialize(prev_shape, need_dx) of the block, before the first forward; the same block
\* may be initialized again. The call record keeps the shape the block had before the call.
BlkInitialize ==
    /\ blk_calls = 0 /\ blk_last.inits < BlkMaxInits
    /\ \E ps \in BlockPrevShapes, nd \in BOOLEAN, w \in 1..MaxWeight :
         /\ FlatFed(blk, ps)
         /\ \E r \in { IF blk.kind = "add"
                     THEN AdditionBlock_initialize(blk, ps, nd, model_id, PathWeights(w), BatchSize)
                     ELSE ConcatenationBlock_initialize(blk, ps, nd, model_id, PathWeights(w),
                                                        BatchSize) } :
             /\ blk' = r.b
             /\ model_id' = r.id
    /\ blk_last' = [op |-> "initialize", inits |-> blk_last.inits + 1, before |-> blk]
    /\ UNCHANGED <<heap, blk_calls>>
    /\ UNCHANGED notBlockVars

\* y = forward(x): the caller's x is a new array; the arrays of earlier calls that nothing
\* refers to any longer are dropped with the caller's frame.
BlkForward ==
    /\ blk.initialized
    /\ blk_calls < BlkMaxCalls
    /\ \E b \in 1..MaxBatch, seed \in 0..BlkMaxSeed :
         \E a \in { Alloc(<<>>, XMatrix(seed, b, blk.prev_shape[1])) } :
         \E r \in { Block_forward(blk, a) } :
             /\ blk' = r.b
             /\ heap' = r.heap
             /\ blk_last' = [op |-> "forward", arg |-> a.ref, before |-> Deref(a.heap, a.ref),
                             log |-> r.log, ret |-> r.ret, returned |-> ArrRef(r.ret)]
    /\ blk_calls' = blk_calls + 1
    /\ UNCHANGED model_id
    /\ UNCHANGED notBlockVars

\* dx = backward(dy) after a forward: dy is a new array with the rows of that forward's
\* output; the arrays of the forward stay alive (the children's self.x refer to them).
BlkBackward ==
    /\ blk.initialized
    /\ blk_last.op = "forward"
    /\ blk_calls < BlkMaxCalls
    /\ \E g \in 1..MaxGrad :
         \E a \in { Alloc(heap, DyMatrix(g, Len(blk_last.before), blk.shape[1])) } :
         \E r \in { Block_backward(blk, a) } :
             /\ blk' = r.b
             /\ heap' = r.heap
             /\ blk_last' = [op |-> "backward", arg |-> a.ref, before |-> Deref(a.heap, a.ref),
                             log |-> r.log, ret |-> r.ret, returned |-> ArrRef(r.ret)]
    /\ blk_calls' = blk_calls + 1
    /\ UNCHANGED model_id
    /\ UNCHANGED notBlockVars

BlockNext == BlkInitialize \/ BlkForward \/ BlkBackward

SpecBlock == BlockInit /\ [][BlockNext]_vars

(***************************************************************************)
(* C2: the contents of dy are the same after backward(dy) returns as       *)
(* before the call, for every composite block.                             *)
(***************************************************************************)
C2_BackwardLeavesDy ==
    blk_last.op = "backward" => Deref(heap, blk_last.arg) = blk_last.before

(***************************************************************************)
(* What a path computes on a value, with no array shared between paths:     *)
(* the reference the block claims are stated against.                       *)
(***************************************************************************)
RECURSIVE PathForwardValue(_, _, _)
\* The output of the layers i.. of path p on the input value x.
PathForwardValue(p, x, i) ==
    IF i > Len(p) THEN x
    ELSE PathForwardValue(p, IF p[i].type = "FC" THEN FC_forward(p[i], x).v ELSE x, i + 1)

RECURSIVE PathBackwardValue(_, _, _)
\* The input gradient of the layers i, i-1, .., 1 of path p for the output gradient dy.
PathBackwardValue(p, dy, i) ==
    IF i = 0 THEN dy
    ELSE PathBackwardValue(p, IF p[i].type = "FC" THEN MatMul(dy, Transpose(p[i].weights))
                              ELSE dy, i - 1)

RECURSIVE SumValues(_, _)
\* vals[1] + ... + vals[k], element-wise.
SumValues(vals, k) ==
    IF k = 1 THEN vals[1] ELSE MatAdd(SumValues(vals, k - 1), vals[k])

\* The columns lo+1..hi of a matrix value.
Columns(m, lo, hi) == [i \in 1..Len(m) |-> SubSeq(m[i], lo + 1, hi)]

\* The children of blk that are FC layers, as <<path, layer>> index pairs.
FCChildren ==
    { c \in (1..Len(blk.paths)) \X (1..2) :
        c[2] <= Len(blk.paths[c[1]]) /\ blk.paths[c[1]][c[2]].type = "FC" }

(***************************************************************************)
(* C3: AdditionBlock.forward(x) hands every path the original value of x,   *)
(* returns the element-wise sum of the path outputs, and leaves x and the   *)
(* inputs cached by the child layers as they were.                          *)
(***************************************************************************)
C3_ForwardRunsPathsOnOwnCopy ==
    (blk.kind = "add" /\ blk_last.op = "forward") =>
        /\ \A i \in 1..Len(blk.paths) : blk_last.log.handed[i] = blk_last.before
        /\ Deref(heap, blk_last.ret) =
             SumValues([i \in 1..Len(blk.paths) |->
                           PathForwardValue(blk.paths[i], blk_last.before, 1)], Len(blk.paths))
        /\ Deref(heap, blk_last.arg) = blk_last.before
        /\ \A c \in FCChildren :
             Deref(heap, blk.paths[c[1]][c[2]].x.ref) =
                 PathForwardValue(SubSeq(blk.paths[c[1]], 1, c[2] - 1), blk_last.before, 1)

(***************************************************************************)
(* C4: AdditionBlock.backward(dy) returns the sum over the paths of the     *)
(* input gradient of that path for the same dy, and every path is handed    *)
(* the original dy.                                                        *)
(***************************************************************************)
C4_BackwardSumsPathGradients ==
    (blk.kind = "add" /\ blk_last.op = "backward") =>
        /\ \A i \in 1..Len(blk.paths) : blk_last.log.handed[i] = blk_last.before
        /\ Deref(heap, blk_last.ret) =
             SumValues([i \in 1..Len(blk.paths) |->
                           PathBackwardValue(blk.paths[i], blk_last.before,
                                             Len(blk.paths[i]))], Len(blk.paths))

(***************************************************************************)
(* C5: a ConcatenationBlock whose paths produce c_1..c_k channels has       *)
(* c_1+...+c_k output channels; splitting the forward output at the block's *)
(* boundaries recovers each path's output, and backward(dy) hands path i    *)
(* the channels [c_1+...+c_(i-1), c_1+...+c_i) of dy.                       *)
(***************************************************************************)
C5_ConcatSplitsAtChannelBoundaries ==
    (blk.kind = "concat" /\ blk.initialized) =>
        LET k == Len(blk.paths)
            c == [i \in 1..k |-> blk.out_shapes[i][1]]
            lo == [i \in 1..k |-> SumTo(c, i - 1)]
        IN  /\ blk.shape[1] = SumTo(c, k)
            /\ blk_last.op = "forward" =>
                 /\ Len(Deref(heap, blk_last.ret)[1]) = SumTo(c, k)
                 /\ \A i \in 1..k :
                      /\ Len(blk_last.log.outs[i][1]) = c[i]
                      /\ Deref(heap, Split(blk_last.ret, blk.idx_co)[i]) = blk_last.log.outs[i]
                      /\ Columns(Deref(heap, blk_last.ret), lo[i], lo[i] + c[i])
                           = PathForwardValue(blk.paths[i], blk_last.before, 1)
            /\ blk_last.op = "backward" =>
                 \A i \in 1..k :
                      blk_last.log.handed[i] = Columns(blk_last.before, lo[i], lo[i] + c[i])

\* Paths of 4 and 8 channels give 12, and a backward call has split a gradient there.
C5_Witness ==
    /\ blk.kind = "concat" /\ blk.initialized
    /\ blk.out_co = <<4, 8>> /\ blk.shape = <<12>>
    /\ blk_last.op = "backward"
    /\ Len(blk_last.log.handed[1][1]) = 4 /\ Len(blk_last.log.handed[2][1]) = 8

(***************************************************************************)
(* C7: backward(dy) returns an input gradient if and only if the need_dx    *)
(* passed to initialize was true, and sets every parameter gradient named   *)
(* in grad_vars either way.                                                *)
(***************************************************************************)
C7_DxIffNeedDx ==
    blk_last.op = "backward" =>
        /\ blk.arg_need_dx <=> blk_last.returned.kind = "ndarray"
        /\ \A c \in FCChildren :
             LET l == blk.paths[c[1]][c[2]]
             IN  /\ "dw" \in l.grad_vars => IsArr(l.dw)
                 /\ "db" \in l.grad_vars => IsArr(l.db)

(***************************************************************************)
(* Conv2D (src/NN_layer.py:130-315) with its two strategies: im2col and     *)
(* matmul (_forward_i2c, _backward_i2c) or the convGemm library             *)
(* (_forward_cg, _backward_cg).  Tensors are row-major flat sequences.      *)
(***************************************************************************)
ConvMaxCalls == 3   \* calls (initialize, forward, backward) made on a layer after its first initialize
ConvMaxSeed == 1    \* convolution inputs number 0..ConvMaxSeed

\* A Python exception leaving a call.
Raised(name) == [kind |-> name]

\* The input tensor number `seed` with n elements.
ConvInput(seed, n) == [i \in 1..n |-> (i * i + seed) % 7]

\* The filter tensor number ws with n elements an initializer may return.
ConvWeights(ws, n) == [i \in 1..n |-> ws * i + (i % 2)]

\* a.reshape(rows, -1) of a flat tensor
Reshape2(a, rows) ==
    [r \in 1..rows |-> [q \in 1..(Len(a) \div rows) |-> a[(r - 1) * (Len(a) \div rows) + q]]]

\* m.reshape(-1) of a matrix with `cols` columns
Ravel(m, cols) == [i \in 1..(Len(m) * cols) |-> m[((i - 1) \div cols) + 1][((i - 1) % cols) + 1]]

\* t.transpose((1, 0, 2, 3)) of a flat (A, B, H, W) tensor: the flat (B, A, H, W) tensor.
Transpose1023(t, A, B, H, W) ==
    [i \in 1..(A * B * H * W) |->
        t[((((i - 1) % (A * H * W)) \div (H * W)) * B + ((i - 1) \div (A * H * W))) * H * W
          + ((i - 1) % (H * W)) + 1]]

\* add_cython(res, biases): biases[k] is added to row k of res.
add_cython(res, biases) ==
    [k \in 1..Len(res) |-> [q \in 1..Len(res[k]) |-> res[k][q] + biases[k]]]

\* np.sum(dy, axis=(0, 2, 3)) of a flat (N, C, H, W) tensor
SumOverNHW(dy, N, C, H, W) ==
    [c \in 1..C |->
        SumTo([j \in 1..(N * H * W) |->
                  dy[(((j - 1) \div (H * W)) * C + (c - 1)) * H * W + ((j - 1) % (H * W)) + 1]],
              N * H * W)]

\* ConvGemm.conv_gemm(weights, x, biases=None, vpadding, hpadding, vstride, hstride) for
\* weights (kn, c, kh, kw) and x (b, c, h, w): the library refuses different strides and
\* otherwise returns the (kn, b*ho*wo) matrix of the convolution, computed window by window.
conv_gemm(weights, kn, c, kh, kw, x, b, h, w, vpadding, hpadding, vstride, hstride) ==
    IF vstride # hstride THEN Raised("AssertionError")
    ELSE Arr([k \in 1..kn |->
                [q \in 1..(b * OutSize(h, kh, vpadding, vstride) * OutSize(w, kw, hpadding, hstride)) |->
                   SumTo([e \in 1..(c * kh * kw) |->
                            weights[(k - 1) * c * kh * kw + e]
                            * At4(x, c, h, w,
                                  (q - 1) \div (OutSize(h, kh, vpadding, vstride)
                                                * OutSize(w, kw, hpadding, hstride)),
                                  (e - 1) \div (kh * kw),
                                  vstride * (((q - 1) % (OutSize(h, kh, vpadding, vstride)
                                                         * OutSize(w, kw, hpadding, hstride)))
                                             \div OutSize(w, kw, hpadding, hstride))
                                    + (((e - 1) % (kh * kw)) \div kw) - vpadding,
                                  hstride * ((q - 1) % OutSize(w, kw, hpadding, hstride))
                                    + ((e - 1) % kw) - hpadding)],
                         c * kh * kw)]])

\* _get_x_reorder_and_xstride(kx, xo, s): (None, 1) for s = 1, else the index table
\* [i + j*s for i in range(kx) for j in range(xo)] and xo.  Its lru_cache returns the same
\* read-only table for the same arguments.
get_x_reorder_and_xstride(kx, xo, s) ==
    IF s = 1 THEN [x_reorder |-> PyNone, xstride |-> 1]
    ELSE [x_reorder |-> Arr([e \in 1..(kx * xo) |-> ((e - 1) \div xo) + ((e - 1) % xo) * s]),
          xstride |-> xo]

\* The convolutions the model constructs: nfilters, filter_shape, padding, stride (an
\* integer padding is used for both directions, a stride pair is (vstride, hstride)).
ConvCtorArgs ==
    { [nfilters |-> 1, filter_shape |-> <<1, 1>>, padding |-> 0, stride |-> <<1, 1>>, use_bias |-> TRUE],
      [nfilters |-> 2, filter_shape |-> <<2, 2>>, padding |-> 0, stride |-> <<1, 1>>, use_bias |-> FALSE],
      [nfilters |-> 1, filter_shape |-> <<1, 2>>, padding |-> 1, stride |-> <<1, 1>>, use_bias |-> TRUE],
      [nfilters |-> 1, filter_shape |-> <<1, 1>>, padding |-> 0, stride |-> <<2, 2>>, use_bias |-> FALSE],
      [nfilters |-> 2, filter_shape |-> <<2, 1>>, padding |-> 1, stride |-> <<2, 2>>, use_bias |-> TRUE],
      [nfilters |-> 1, filter_shape |-> <<1, 1>>, padding |-> 0, stride |-> <<1, 2>>, use_bias |-> TRUE] }

\* The prev_shape values (ci, hi, wi) initialize is called with.
ConvPrevShapes == { <<1, 2, 2>>, <<2, 1, 3>>, <<1, 3, 3>> }

\* The cost estimates of NN_sim for an (m, n) column matrix.
im2col_time(m, n) == m * n

col2im_time(m, n) == m * n

\* Conv2D.__init__: forward and backward start bound to the im2col strategy.
Conv2D_init(a) ==
    [co |-> a.nfilters, filter_shape |-> a.filter_shape,
     vpadding |-> a.padding, hpadding |-> a.padding,
     vstride |-> a.stride[1], hstride |-> a.stride[2],
     use_bias |-> a.use_bias,
     grad_vars |-> IF a.use_bias THEN {"dw", "db"} ELSE {"dw"},
     cg |-> PyNone, forward |-> "_forward_i2c", backward |-> "_backward_i2c",
     initialized |-> FALSE, need_dx |-> FALSE,
     ci |-> 0, hi |-> 0, wi |-> 0, kh |-> 0, kw |-> 0, ho |-> 0, wo |-> 0,
     shape |-> <<>>, weights |-> <<>>, biases |-> <<>>, nparams |-> 0,
     fwd_time |-> 0, bwd_time |-> 0,
     x_cols |-> PyNone, cg_x |-> PyNone, cg_x_reshaped |-> PyNone, batch |-> 0,
     dw |-> PyNone, db |-> PyNone]

\* The tail of Conv2D.initialize: the strategy is rebound only when enable_conv_gemm is set,
\* and the cost estimates (bwd_time is the two multiplies when need_dx, else 0).
Conv2D_bind(l, enable_conv_gemm, batch_size) ==
    [l EXCEPT !.cg = IF enable_conv_gemm THEN [kind |-> "ConvGemm"] ELSE @,
              !.forward = IF enable_conv_gemm THEN "_forward_cg" ELSE @,
              !.backward = IF enable_conv_gemm THEN "_backward_cg" ELSE @,
              !.fwd_time = im2col_time(l.ci * l.kh * l.kw, batch_size * l.ho * l.wo)
                           + matmul_time(l.co, batch_size * l.ho * l.wo, l.ci * l.kh * l.kw),
              !.bwd_time = IF l.need_dx
                           THEN matmul_time(l.co, l.ci * l.kh * l.kw, batch_size * l.ho * l.wo)
                                + matmul_time(l.ci * l.kh * l.kw, batch_size * l.ho * l.wo, l.co)
                           ELSE 0,
              !.initialized = TRUE]

\* Conv2D.initialize(prev_shape, need_dx) with the initializer returning the filters number ws.
Conv2D_initialize(l, prev_shape, need_dx, ws, batch_size, enable_conv_gemm) ==
    Conv2D_bind(
        [l EXCEPT !.need_dx = need_dx,
                  !.ci = prev_shape[1], !.hi = prev_shape[2], !.wi = prev_shape[3],
                  !.kh = l.filter_shape[1], !.kw = l.filter_shape[2],
                  !.weights = ConvWeights(ws, l.co * prev_shape[1] * l.filter_shape[1]
                                              * l.filter_shape[2]),
                  !.biases = IF l.use_bias THEN [k \in 1..l.co |-> 0] ELSE @,
                  !.ho = OutSize(prev_shape[2], l.filter_shape[1], l.vpadding, l.vstride),
                  !.wo = OutSize(prev_shape[3], l.filter_shape[2], l.hpadding, l.hstride),
                  !.shape = <<l.co, OutSize(prev_shape[2], l.filter_shape[1], l.vpadding, l.vstride),
                              OutSize(prev_shape[3], l.filter_shape[2], l.hpadding, l.hstride)>>,
                  !.nparams = l.co * prev_shape[1] * l.filter_shape[1] * l.filter_shape[2]
                              + (IF l.use_bias THEN l.co ELSE 0)],
        enable_conv_gemm, batch_size)

\* y.reshape(self.co, -1, self.ho, self.wo).transpose(1, 0, 2, 3) after the bias: the flat
\* (b, co, ho, wo) tensor of the (co, b*ho*wo) matrix res.
Conv2D_output(l, b, res) ==
    Transpose1023(Ravel(IF l.use_bias THEN add_cython(res, l.biases) ELSE res, b * l.ho * l.wo),
                  l.co, b, l.ho, l.wo)

\* Conv2D._forward_i2c(x) for a flat (b, ci, hi, wi) tensor x, given x_cols.
Conv2D_forward_i2c_cols(l, b, x_cols) ==
    [l |-> [l EXCEPT !.x_cols = Arr(x_cols), !.batch = b],
     ret |-> Arr(Conv2D_output(l, b, MatMul(Reshape2(l.weights, l.co), x_cols)))]

Conv2D_forward_i2c(l, x, b) ==
    Conv2D_forward_i2c_cols(l, b,
        im2col_cython(x, b, l.ci, l.hi, l.wi, l.kh, l.kw, l.vpadding, l.hpadding,
                      l.vstride, l.hstride))

\* Conv2D._forward_cg(x), given what conv_gemm returned or raised.
Conv2D_forward_cg_res(l, x, b, res) ==
    [l |-> [l EXCEPT !.cg_x = Arr(x), !.batch = b],
     ret |-> IF IsArr(res) THEN Arr(Conv2D_output(l, b, res.v)) ELSE res]

Conv2D_forward_cg(l, x, b) ==
    Conv2D_forward_cg_res(l, x, b,
        conv_gemm(l.weights, l.co, l.ci, l.kh, l.kw, x, b, l.hi, l.wi,
                  l.vpadding, l.hpadding, l.vstride, l.hstride))

\* dy.transpose((1, 0, 2, 3)).reshape(self.co, -1) of a flat (b, co, ho, wo) tensor dy
Conv2D_dy_cols(l, dy, b) == Reshape2(Transpose1023(dy, b, l.co, l.ho, l.wo), l.co)

\* The common tail of both backward strategies: db when a bias is used, and the input
\* gradient w_cols.T @ dy_cols folded by col2im when need_dx, else None.
Conv2D_backward_tail(l, dy, b, dw) ==
    [l |-> [l EXCEPT !.dw = Arr(dw),
                     !.db = IF l.use_bias THEN Arr(SumOverNHW(dy, b, l.co, l.ho, l.wo)) ELSE @],
     ret |-> IF l.need_dx
             THEN Arr(col2im_cython(MatMul(Transpose(Reshape2(l.weights, l.co)),
                                           Conv2D_dy_cols(l, dy, b)),
                                    b, l.ci, l.hi, l.wi, l.kh, l.kw, l.vpadding, l.hpadding,
                                    l.vstride, l.hstride))
             ELSE PyNone]

\* Conv2D._backward_i2c(dy): dw = dy_cols @ x_cols.T reshaped as the filters.
Conv2D_backward_i2c(l, dy, b) ==
    Conv2D_backward_tail(l, dy, b,
        Ravel(MatMul(Conv2D_dy_cols(l, dy, b), Transpose(l.x_cols.v)), l.ci * l.kh * l.kw))

\* The indices a reorder table selects along an axis of the given extent (all of them, in
\* order, when the table is None).
AxisIndices(t, extent) == IF IsArr(t.x_reorder) THEN t.x_reorder.v ELSE [e \in 1..extent |-> e - 1]

\* np.pad(self.cg_x.transpose((1, 0, 2, 3)), ...) indexed by the two tables: the flat
\* (ci, b, Len(rows), Len(cols)) tensor.
Conv2D_cg_x_reshaped(l, b, rows, cols) ==
    [i \in 1..(l.ci * b * Len(rows) * Len(cols)) |->
        At4(l.cg_x.v, l.ci, l.hi, l.wi,
            ((i - 1) % (b * Len(rows) * Len(cols))) \div (Len(rows) * Len(cols)),
            (i - 1) \div (b * Len(rows) * Len(cols)),
            rows[(((i - 1) % (Len(rows) * Len(cols))) \div Len(cols)) + 1] - l.vpadding,
            cols[((i - 1) % Len(cols)) + 1] - l.hpadding)]

\* The end of Conv2D._backward_cg once conv_gemm returned or raised res: the result must
\* have as many elements as the filters to be reshaped as them.
Conv2D_backward_cg_res(l, dy, b, xr, res) ==
    IF ~IsArr(res) THEN [l |-> [l EXCEPT !.cg_x_reshaped = Arr(xr)], ret |-> res]
    ELSE IF Len(res.v) * Len(res.v[1]) # Len(l.weights)
         THEN [l |-> [l EXCEPT !.cg_x_reshaped = Arr(xr)], ret |-> Raised("ValueError")]
         ELSE Conv2D_backward_tail([l EXCEPT !.cg_x_reshaped = Arr(xr)], dy, b,
                                   Ravel(res.v, Len(res.v[1])))

\* The multiply of Conv2D._backward_cg: dy plays the filters (co, b, ho, wo), the re-indexed
\* input plays the images (ci, b, rows, cols), the strides are the tables' strides.
Conv2D_backward_cg_mult(l, dy, b, hr, vr, xr) ==
    Conv2D_backward_cg_res(l, dy, b, xr,
        conv_gemm(Transpose1023(dy, b, l.co, l.ho, l.wo), l.co, b, l.ho, l.wo,
                  xr, l.ci, Len(AxisIndices(hr, l.hi + 2 * l.vpadding)),
                  Len(AxisIndices(vr, l.wi + 2 * l.hpadding)),
                  0, 0, hr.xstride, vr.xstride))

\* Indexing with the tables: an index outside the padded input is an IndexError.
Conv2D_backward_cg_index(l, dy, b, hr, vr) ==
    IF \/ \E e \in DOMAIN AxisIndices(hr, l.hi + 2 * l.vpadding) :
            AxisIndices(hr, l.hi + 2 * l.vpadding)[e] >= l.hi + 2 * l.vpadding
       \/ \E e \in DOMAIN AxisIndices(vr, l.wi + 2 * l.hpadding) :
            AxisIndices(vr, l.wi + 2 * l.hpadding)[e] >= l.wi + 2 * l.hpadding
    THEN [l |-> [l EXCEPT !.cg_x_reshaped =
                     Arr(Conv2D_cg_x_reshaped(l, b, [e \in 1..(l.hi + 2 * l.vpadding) |-> e - 1],
                                              [e \in 1..(l.wi + 2 * l.hpadding) |-> e - 1]))],
          ret |-> Raised("IndexError")]
    ELSE Conv2D_backward_cg_mult(l, dy, b, hr, vr,
             Conv2D_cg_x_reshaped(l, b, AxisIndices(hr, l.hi + 2 * l.vpadding),
                                  AxisIndices(vr, l.wi + 2 * l.hpadding)))

\* Conv2D._backward_cg(dy)
Conv2D_backward_cg(l, dy, b) ==
    Conv2D_backward_cg_index(l, dy, b,
        get_x_reorder_and_xstride(l.kh, l.ho, l.vstride),
        get_x_reorder_and_xstride(l.kw, l.wo, l.hstride))

\* The call l.forward(x) / l.backward(dy) through the bound attribute.
Conv2D_forward(l, x, b) ==
    IF l.forward = "_forward_cg" THEN Conv2D_forward_cg(l, x, b) ELSE Conv2D_forward_i2c(l, x, b)

Conv2D_backward(l, dy, b) ==
    IF l.backward = "_backward_cg" THEN Conv2D_backward_cg(l, dy, b)
    ELSE Conv2D_backward_i2c(l, dy, b)

(***************************************************************************)
(* AbstractPool2DLayerCPU                                                  *)
(* (src/pydtnn/backends/cpu/layers/abstract_pool_2d_layer_cpu.py).          *)
(***************************************************************************)
\* Before initialize the attributes are the class's placeholder methods.
AbstractPool2D_init == [forward |-> "forward", backward |-> "backward", initialized |-> FALSE]

\* AbstractPool2DLayerCPU.initialize: both attributes are set, in either branch.
AbstractPool2D_initialize(l, tensor_format) ==
    IF tensor_format = "NCHW"
    THEN [l EXCEPT !.forward = "_forward_nchw_cython", !.backward = "_backward_nchw_cython",
                   !.initialized = TRUE]
    ELSE [l EXCEPT !.forward = "_forward_nhwc_cython", !.backward = "_backward_nhwc_cython",
                   !.initialized = TRUE]

(***************************************************************************)
(* The convolution specification: one Conv2D and one pooling layer of a     *)
(* model whose configuration may change between two initialize calls.       *)
(***************************************************************************)
TensorFormats == { "NCHW", "NHWC" }

\* The record of the calls: the latest call (op and its values), the input of the latest
\* Conv2D forward, and the configuration each layer's latest initialize was called under.
NoCall == [op |-> "none", x |-> <<>>, conv_cfg |-> None, pool_cfg |-> None]

ConvInit ==
    /\ params \in [enable_conv_gemm : BOOLEAN, tensor_format : TensorFormats]
    /\ \E a \in ConvCtorArgs : conv = Conv2D_init(a)
    /\ pool2d = AbstractPool2D_init
    /\ conv_last = NoCall
    /\ conv_calls = 0
    /\ MpIdle
    /\ FcIdle
    /\ BlockIdle
    /\ BnIdle
    /\ RestIdle

\* The configuration is changed between two calls.
SetParams ==
    /\ \E e \in BOOLEAN, f \in TensorFormats :
         /\ [enable_conv_gemm |-> e, tensor_format |-> f] # params
         /\ params' = [enable_conv_gemm |-> e, tensor_format |-> f]
    /\ UNCHANGED <<conv, conv_last, conv_calls, pool2d>>
    /\ UNCHANGED notConvVars

\* conv.initialize(prev_shape, need_dx) under the configuration in force.
ConvInitialize ==
    /\ conv_calls < ConvMaxCalls
    /\ \E ps \in ConvPrevShapes, nd \in BOOLEAN, ws \in 1..MaxWeight :
         conv' = Conv2D_initialize(conv, ps, nd, ws, BatchSize, params.enable_conv_gemm)
    /\ conv_last' = [conv_last EXCEPT !.op = "initialize", !.conv_cfg = params.enable_conv_gemm]
    /\ conv_calls' = conv_calls + 1
    /\ UNCHANGED <<params, pool2d>>
    /\ UNCHANGED notConvVars

\* conv.forward(x) for an input of any batch size; an exception leaves the call.
ConvForward ==
    /\ conv.initialized /\ conv.ho >= 1 /\ conv.wo >= 1
    /\ conv_calls < ConvMaxCalls
    /\ \E b \in 1..MaxBatch, seed \in 0..ConvMaxSeed :
         \E x \in { ConvInput(seed, b * conv.ci * conv.hi * conv.wi) } :
         \E r \in { Conv2D_forward(conv, x, b) } :
             /\ conv' = r.l
             /\ conv_last' = [op |-> "forward", x |-> x, b |-> b, ret |-> r.ret,
                             conv_cfg |-> conv_last.conv_cfg, pool_cfg |-> conv_last.pool_cfg]
    /\ conv_calls' = conv_calls + 1
    /\ UNCHANGED <<params, pool2d>>
    /\ UNCHANGED notConvVars

\* conv.backward(dy) after a forward that returned, dy shaped like the forward's output.
ConvBackward ==
    /\ conv.initialized
    /\ conv_last.op = "forward" /\ IsArr(conv_last.ret)
    /\ conv_calls < ConvMaxCalls
    /\ \E g \in 1..MaxGrad :
         \E dy \in { DyTensor(g, conv_last.b * conv.co * conv.ho * conv.wo) } :
         \E r \in { Conv2D_backward(conv, dy, conv_last.b) } :
             /\ conv' = r.l
             /\ conv_last' = [op |-> "backward", x |-> conv_last.x, b |-> conv_last.b,
                             dy |-> dy, ret |-> r.ret,
                             conv_cfg |-> conv_last.conv_cfg, pool_cfg |-> conv_last.pool_cfg]
    /\ conv_calls' = conv_calls + 1
    /\ UNCHANGED <<params, pool2d>>
    /\ UNCHANGED notConvVars

\* pool2d.initialize(prev_shape, need_dx) under the configuration in force.
Pool2dInitialize ==
    /\ conv_calls < ConvMaxCalls
    /\ pool2d' = AbstractPool2D_initialize(pool2d, params.tensor_format)
    /\ conv_last' = [conv_last EXCEPT !.op = "pool2d.initialize",
                                      !.pool_cfg = params.tensor_format]
    /\ conv_calls' = conv_calls + 1
    /\ UNCHANGED <<params, conv>>
    /\ UNCHANGED notConvVars

\* pool2d.forward(x) or pool2d.backward(dy): the bound method runs, the attributes stay.
Pool2dCall ==
    /\ pool2d.initialized
    /\ conv_calls < ConvMaxCalls
    /\ \E m \in { pool2d.forward, pool2d.backward } :
         conv_last' = [conv_last EXCEPT !.op = m]
    /\ conv_calls' = conv_calls + 1
    /\ UNCHANGED <<params, conv, pool2d>>
    /\ UNCHANGED notConvVars

\* A call through an attribute that still holds Conv2D.__init__'s binding, before any
\* initialize: _forward_i2c / _backward_i2c read self.kh and self.x_cols, which only
\* initialize and forward assign.
Conv2D_call_uninitialized(l, m) == Raised("AttributeError")

\* A call of the class's placeholder forward / backward, whose body is `pass`.
AbstractPool2D_placeholder(l, m) == PyNone

\* conv.forward(x) or conv.backward(dy) before conv.initialize.
ConvEarlyCall ==
    /\ ~conv.initialized
    /\ conv_calls < ConvMaxCalls
    /\ \E m \in { conv.forward, conv.backward } :
         conv_last' = [op |-> "early", layer |-> "conv", method |-> m,
                       ret |-> Conv2D_call_uninitialized(conv, m), x |-> conv_last.x,
                       conv_cfg |-> conv_last.conv_cfg, pool_cfg |-> conv_last.pool_cfg]
    /\ conv_calls' = conv_calls + 1
    /\ UNCHANGED <<params, conv, pool2d>>
    /\ UNCHANGED notConvVars

\* pool2d.forward(x) or pool2d.backward(dy) before pool2d.initialize.
Pool2dEarlyCall ==
    /\ ~pool2d.initialized
    /\ conv_calls < ConvMaxCalls
    /\ \E m \in { pool2d.forward, pool2d.backward } :
         conv_last' = [op |-> "early", layer |-> "pool2d", method |-> m,
                       ret |-> AbstractPool2D_placeholder(pool2d, m), x |-> conv_last.x,
                       conv_cfg |-> conv_last.conv_cfg, pool_cfg |-> conv_last.pool_cfg]
    /\ conv_calls' = conv_calls + 1
    /\ UNCHANGED <<params, conv, pool2d>>
    /\ UNCHANGED notConvVars

ConvNext ==
    \/ SetParams
    \/ ConvInitialize
    \/ ConvForward
    \/ ConvBackward
    \/ Pool2dInitialize
    \/ Pool2dCall
    \/ ConvEarlyCall
    \/ Pool2dEarlyCall

SpecConv == ConvInit /\ [][ConvNext]_vars

\* C8: after each initialize the bound forward and backward of a two-strategy layer belong
\* to one strategy, the one the configuration in force at that initialize selects
\* (enable_conv_gemm for Conv2D, tensor_format for the pooling layer), and the binding
\* stays so over the forward/backward calls that follow.
C8_BindingFollowsConfiguration ==
    /\ conv.initialized =>
         /\ conv.forward = (IF conv_last.conv_cfg THEN "_forward_cg" ELSE "_forward_i2c")
         /\ conv.backward = (IF conv_last.conv_cfg THEN "_backward_cg" ELSE "_backward_i2c")
    /\ pool2d.initialized =>
         /\ pool2d.forward = (IF conv_last.pool_cfg = "NCHW" THEN "_forward_nchw_cython"
                              ELSE "_forward_nhwc_cython")
         /\ pool2d.backward = (IF conv_last.pool_cfg = "NCHW" THEN "_backward_nchw_cython"
                               ELSE "_backward_nhwc_cython")

\* The layer as the im2col strategy leaves it after forward(x) on the latest input.
AfterForwardI2c == Conv2D_forward_i2c(conv, conv_last.x, conv_last.b).l

\* C9: with equal vertical and horizontal stride, the fused strategy returns the forward
\* output of the im2col strategy, and its backward leaves the weight gradient the im2col
\* strategy leaves for the same weights, input and dy.
C9_FusedEqualsIm2col ==
    (conv.initialized /\ conv.vstride = conv.hstride /\ conv.forward = "_forward_cg") =>
        /\ conv_last.op = "forward" =>
             conv_last.ret = Conv2D_forward_i2c(conv, conv_last.x, conv_last.b).ret
        /\ conv_last.op = "backward" =>
             /\ conv_last.ret.kind \in {"ndarray", "None"}
             /\ conv.dw = Conv2D_backward_i2c(AfterForwardI2c, conv_last.dy, conv_last.b).l.dw

(***************************************************************************)
(* BatchNormalization (src/NN_layer.py:484-567) in a data-parallel run:     *)
(* every process owns one layer object and calls forward on its shard; the  *)
(* statistics are exact rationals <<numerator, denominator>> in lowest      *)
(* terms, and a square root is kept as the term under the root.             *)
(***************************************************************************)
NProcs == 2        \* processes of the communicator, ranks 1..NProcs
BnMaxRounds == 2   \* forward calls every process makes in a run
BnMaxSeed == 1     \* global batches number 0..BnMaxSeed

Procs == 1..NProcs

RECURSIVE GCD(_, _)
GCD(a, b) == IF b = 0 THEN a ELSE GCD(b, a % b)

Abs(a) == IF a < 0 THEN -a ELSE a

\* The rational n/d (d # 0) in lowest terms with a positive denominator.
Rat(n, d) ==
    IF d < 0 THEN <<(-n) \div GCD(Abs(n), Abs(d)), (-d) \div GCD(Abs(n), Abs(d))>>
    ELSE <<n \div GCD(Abs(n), Abs(d)), d \div GCD(Abs(n), Abs(d))>>

RAdd(a, b) == Rat(a[1] * b[2] + b[1] * a[2], a[2] * b[2])

RSub(a, b) == Rat(a[1] * b[2] - b[1] * a[2], a[2] * b[2])

RMul(a, b) == Rat(a[1] * b[1], a[2] * b[2])

RDiv(a, b) == Rat(a[1] * b[2], a[2] * b[1])

RECURSIVE RSumTo(_, _)
\* f[1] + ... + f[n] for rationals
RSumTo(f, n) == IF n = 0 THEN <<0, 1>> ELSE RAdd(f[n], RSumTo(f, n - 1))

\* np.sum(data, axis=0) of a matrix of rationals with C columns
RColSum(data, C) == [c \in 1..C |-> RSumTo([i \in 1..Len(data) |-> data[i][c]], Len(data))]

\* The hyperparameters of the constructor: momentum=0.9, epsilon=1e-5, beta=0.0, gamma=1.0.
Momentum == <<9, 10>>

Epsilon == <<1, 100000>>

BetaInit == <<0, 1>>

GammaInit == <<1, 1>>

\* The prev_shape values initialize is called with: (features,) or (ci, hi, wi).
BnPrevShapes == { <<1>>, <<2>>, <<1, 1, 2>> }

\* BatchNormalization.__init__ and initialize(prev_shape, need_dx): gamma, beta and the
\* running statistics have one entry per feature (per channel when spatial).
BatchNormalization_initialize(prev_shape, need_dx, sync_stats) ==
    [sync_stats |-> sync_stats, need_dx |-> need_dx, shape |-> prev_shape,
     spatial |-> Len(prev_shape) > 2,
     ci |-> prev_shape[1],
     hi |-> IF Len(prev_shape) > 2 THEN prev_shape[2] ELSE 1,
     wi |-> IF Len(prev_shape) > 2 THEN prev_shape[3] ELSE 1,
     gamma |-> [c \in 1..prev_shape[1] |-> GammaInit],
     beta |-> [c \in 1..prev_shape[1] |-> BetaInit],
     running_mean |-> [c \in 1..prev_shape[1] |-> <<0, 1>>],
     running_var |-> [c \in 1..prev_shape[1] |-> <<1, 1>>],
     nparams |-> 2 * prev_shape[1],
     std |-> PyNone, xn |-> PyNone, dgamma |-> PyNone, dbeta |-> PyNone]

\* x.transpose(0, 2, 3, 1).reshape(-1, self.ci) of a flat (b, ci, hi, wi) tensor (for a
\* layer that is not spatial hi = wi = 1 and x is the (b, ci) matrix): rows of rationals.
BnRows(l, x) ==
    [r \in 1..(Len(x) \div l.ci) |-> [c \in 1..l.ci |->
        <<x[(((r - 1) \div (l.hi * l.wi)) * l.ci + (c - 1)) * l.hi * l.wi
            + ((r - 1) % (l.hi * l.wi)) + 1], 1>>]]

\* y.reshape(-1, self.hi, self.wi, self.ci).transpose(0, 3, 1, 2): the flat tensor again.
BnUnrows(l, y) ==
    [i \in 1..(Len(y) * l.ci) |->
        y[((i - 1) \div (l.ci * l.hi * l.wi)) * l.hi * l.wi + ((i - 1) % (l.hi * l.wi)) + 1]
         [(((i - 1) % (l.ci * l.hi * l.wi)) \div (l.hi * l.wi)) + 1]]

\* x - mu, broadcast over the rows
BnCenter(x, mu) == [r \in 1..Len(x) |-> [c \in 1..Len(mu) |-> RSub(x[r][c], mu[c])]]

\* xc ** 2
BnSquare(xc) == [r \in 1..Len(xc) |-> [c \in 1..Len(xc[r]) |-> RMul(xc[r][c], xc[r][c])]]

\* A variant of mean_sync that divides by the local sample count.
mean_sync_LocalCount(data, N, C) ==
    [c \in 1..C |-> RDiv(RColSum(data, C)[c], <<Len(data), 1>>)]

\* np.sum(data, axis=0) / N: what a process contributes to the reduction of a mean.
mean_sync(data, N, C) == [c \in 1..C |-> RDiv(RColSum(data, C)[c], <<N, 1>>)]

\* np.mean(data, axis=0)
mean_local(data, C) == [c \in 1..C |-> RDiv(RColSum(data, C)[c], <<Len(data), 1>>)]

\* self.std = np.sqrt(var + self.epsilon): the term under the root, per feature.
BnStd(var) == [c \in 1..Len(var) |-> [sqrt |-> RAdd(var[c], Epsilon)]]

\* xc / std: every element keeps its numerator and the root it is divided by.
BnNormalize(xc, std) ==
    [r \in 1..Len(xc) |-> [c \in 1..Len(std) |-> [num |-> xc[r][c], over |-> std[c]]]]

\* self.gamma * xn + self.beta, element by element.
BnAffine(l, xn) ==
    [r \in 1..Len(xn) |-> [c \in 1..l.ci |->
        [gamma |-> l.gamma[c], xn |-> xn[r][c], beta |-> l.beta[c]]]]

\* momentum * running + (1 - momentum) * value
BnRunning(running, value) ==
    [c \in 1..Len(running) |->
        RAdd(RMul(Momentum, running[c]), RMul(RSub(<<1, 1>>, Momentum), value[c]))]

\* The end of the training branch of forward once mu and var are known: std and xn are
\* cached, the running statistics move, and y is returned in the shape of x.
BatchNormalization_train_end(l, xc, mu, var) ==
    [l |-> [l EXCEPT !.std = Arr(BnStd(var)),
                     !.xn = Arr(BnNormalize(xc, BnStd(var))),
                     !.running_mean = BnRunning(@, mu),
                     !.running_var = BnRunning(@, var)],
     y |-> Arr(BnUnrows(l, BnAffine(l, BnNormalize(xc, BnStd(var)))))]

\* The training branch without a reduction, from xc = x - mu on.
BatchNormalization_train_local(l, xc, mu) ==
    BatchNormalization_train_end(l, xc, mu, mean_local(BnSquare(xc), l.ci))

\* A variant of the evaluate branch that moves the running mean as the training branch does.
BatchNormalization_evaluate_Moving(l, rows) ==
    [l |-> [l EXCEPT !.running_mean = BnRunning(@, mean_local(rows, l.ci))],
     y |-> Arr(BnUnrows(l, BnAffine(l, BnNormalize(BnCenter(rows, l.running_mean),
                                                    BnStd(l.running_var)))))]

\* The evaluate branch: the running statistics normalise x, nothing is written.
BatchNormalization_evaluate(l, rows) ==
    [l |-> l,
     y |-> Arr(BnUnrows(l, BnAffine(l, BnNormalize(BnCenter(rows, l.running_mean),
                                                    BnStd(l.running_var)))))]

\* BatchNormalization.forward(x) of a process that makes no reduction (sync_stats false or
\* no communicator, or evaluate mode), x flat.
BatchNormalization_forward_local(l, x, mode) ==
    IF mode = "train"
    THEN BatchNormalization_train_local(l, BnCenter(BnRows(l, x), mean_local(BnRows(l, x), l.ci)),
                                        mean_local(BnRows(l, x), l.ci))
    ELSE BatchNormalization_evaluate(l, BnRows(l, x))

\* dy * self.xn, element by element: the numerators over the root xn is divided by.
BnDyXn(dy, xn) == [r \in 1..Len(dy) |-> [c \in 1..Len(dy[r]) |-> RMul(dy[r][c], xn[r][c].num)]]

\* self.dgamma = np.sum(dy * self.xn, axis=0): per feature a sum over the cached root.
BatchNormalization_dgamma(l, dy) ==
    [c \in 1..l.ci |-> [num |-> RColSum(BnDyXn(dy, l.xn.v), l.ci)[c], over |-> l.std.v[c]]]

\* dx = (gamma / (std * N)) * (N * dy - xn * dgamma - dbeta); xn * dgamma has the square
\* of the root, var + epsilon, under it.
BatchNormalization_dx(l, dy, N) ==
    [r \in 1..Len(dy) |-> [c \in 1..l.ci |->
        [gamma |-> l.gamma[c],
         num |-> RDiv(RSub(RSub(RMul(<<N, 1>>, dy[r][c]),
                                RDiv(RMul(l.xn.v[r][c].num, l.dgamma.v[c].num),
                                     l.std.v[c].sqrt)),
                           l.dbeta.v[c]),
                      <<N, 1>>),
         over |-> l.std.v[c]]]]

\* The end of backward once dgamma and dbeta are set: dx only when need_dx.
BatchNormalization_return(l, dy) ==
    [l |-> l,
     ret |-> IF l.need_dx THEN Arr(BnUnrows(l, BatchNormalization_dx(l, dy, Len(dy))))
             ELSE PyNone]

\* BatchNormalization.backward(dy) on the rows of dy, after a training forward.
BatchNormalization_backward_rows(l, dy) ==
    BatchNormalization_return([l EXCEPT !.dgamma = Arr(BatchNormalization_dgamma(l, dy)),
                                        !.dbeta = Arr(RColSum(dy, l.ci))], dy)

\* BatchNormalization.backward(dy), dy flat.
BatchNormalization_backward(l, dy) == BatchNormalization_backward_rows(l, BnRows(l, dy))

(***************************************************************************)
(* The communicator: comm.Allreduce(MPI.IN_PLACE, buf, op=MPI.SUM) blocks   *)
(* until every process has posted its buffer to the same reduction, then    *)
(* leaves the element-wise sum in the caller's buffer.  posted[q] are the   *)
(* buffers of q not yet consumed by everybody, taken[q] counts those q has  *)
(* consumed itself.                                                        *)
(***************************************************************************)
CommInit == [posted |-> [q \in Procs |-> <<>>], taken |-> [q \in Procs |-> 0]]

\* Process p enters a reduction with buffer v.
Post(c, p, tag, v) == [c EXCEPT !.posted[p] = Append(@, [tag |-> tag, v |-> v])]

\* The reduction p waits in is complete.
Available(c, p) == \A q \in Procs : Len(c.posted[q]) > c.taken[p]

\* The sum p finds in its buffer when the reduction returns.
Allreduce(c, p) ==
    [e \in 1..Len(c.posted[p][c.taken[p] + 1].v) |->
        RSumTo([q \in Procs |-> c.posted[q][c.taken[p] + 1].v[e]], NProcs)]

\* A reduction every process has left is forgotten.
Forget(c) ==
    IF \A q \in Procs : c.taken[q] >= 1
    THEN [posted |-> [q \in Procs |-> Tail(c.posted[q])],
          taken |-> [q \in Procs |-> c.taken[q] - 1]]
    ELSE c

\* Process p leaves the reduction it waited in.
Take(c, p) == Forget([c EXCEPT !.taken[p] = @ + 1])

(***************************************************************************)
(* The data-parallel specification: every process runs the same program,   *)
(* the forward calls of bn_plan, each on its shard of the global batch.     *)
(***************************************************************************)
Modes == { "train", "evaluate" }

\* The shard of global batch number `batch` that rank p feeds to layer l: its number of
\* samples and its values depend on the rank.
Shard(l, batch, p) ==
    ConvInput(batch + p, (((batch * p) % MaxBatch) + 1) * l.ci * l.hi * l.wi)

\* A process between two calls: pc is its position in forward, x the input of its latest
\* call, N, mu and xc the locals of forward, y the value its latest call returned.
ProcIdle == [pc |-> "idle", round |-> 0, x |-> <<>>, N |-> 0, mu |-> <<>>, xc |-> <<>>,
             y |-> PyNone]

BnInit ==
    /\ \E ps \in BnPrevShapes, sync \in BOOLEAN :
         bn = [q \in Procs |-> BatchNormalization_initialize(ps, TRUE, sync)]
    /\ bn_proc = [q \in Procs |-> ProcIdle]
    /\ comm = CommInit
    /\ bn_plan \in [1..BnMaxRounds -> [mode : Modes, batch : 0..BnMaxSeed]]
    /\ MpIdle
    /\ FcIdle
    /\ BlockIdle
    /\ ConvIdle
    /\ RestIdle

\* A slip in the guard of the reductions: the mode is not looked at.
Reduces_AnyMode(l, mode) == l.sync_stats

\* Whether forward enters the reductions: `if self.model.mode == "train"` and, inside it,
\* `if self.sync_stats and comm != None` (the communicator of a data-parallel run is set).
Reduces(l, mode) == mode = "train" /\ l.sync_stats

\* Process p calls forward(x) and runs it without a reduction to its end.
BnForwardLocal(p) ==
    /\ bn_proc[p].pc = "idle" /\ bn_proc[p].round < BnMaxRounds
    /\ ~Reduces(bn[p], bn_plan[bn_proc[p].round + 1].mode)
    /\ \E x \in { Shard(bn[p], bn_plan[bn_proc[p].round + 1].batch, p) } :
         \E r \in { BatchNormalization_forward_local(bn[p], x,
                                                      bn_plan[bn_proc[p].round + 1].mode) } :
             /\ bn' = [bn EXCEPT ![p] = r.l]
             /\ bn_proc' = [bn_proc EXCEPT ![p].x = x, ![p].y = r.y, ![p].round = @ + 1]
    /\ UNCHANGED <<comm, bn_plan>>
    /\ UNCHANGED notBnVars

\* Process p calls forward(x) in training mode with sync_stats: it enters the reduction of
\* the sample count N.
BnForwardSync(p) ==
    /\ bn_proc[p].pc = "idle" /\ bn_proc[p].round < BnMaxRounds
    /\ Reduces(bn[p], bn_plan[bn_proc[p].round + 1].mode)
    /\ \E x \in { Shard(bn[p], bn_plan[bn_proc[p].round + 1].batch, p) } :
         /\ bn_proc' = [bn_proc EXCEPT ![p].x = x, ![p].pc = "N"]
         /\ comm' = Post(comm, p, "N", << <<Len(BnRows(bn[p], x)), 1>> >>)
    /\ UNCHANGED <<bn, bn_plan>>
    /\ UNCHANGED notBnVars

\* The reduction of N returns: mu = mean(x, N, comm) divides the local sum by N and enters
\* the reduction of the quotients.
BnReduceN(p) ==
    /\ bn_proc[p].pc = "N" /\ Available(comm, p)
    /\ \E N \in { Allreduce(comm, p)[1][1] } :
         /\ bn_proc' = [bn_proc EXCEPT ![p].N = N, ![p].pc = "mu"]
         /\ comm' = Post(Take(comm, p), p, "mean",
                         mean_sync(BnRows(bn[p], bn_proc[p].x), N, bn[p].ci))
    /\ UNCHANGED <<bn, bn_plan>>
    /\ UNCHANGED notBnVars

\* The reduction of mu returns: xc = x - mu, and var = mean(xc ** 2, N, comm) enters its
\* reduction.
BnReduceMean(p) ==
    /\ bn_proc[p].pc = "mu" /\ Available(comm, p)
    /\ \E xc \in { BnCenter(BnRows(bn[p], bn_proc[p].x), Allreduce(comm, p)) } :
         /\ bn_proc' = [bn_proc EXCEPT ![p].mu = Allreduce(comm, p), ![p].xc = xc,
                                       ![p].pc = "var"]
         /\ comm' = Post(Take(comm, p), p, "var",
                         mean_sync(BnSquare(xc), bn_proc[p].N, bn[p].ci))
    /\ UNCHANGED <<bn, bn_plan>>
    /\ UNCHANGED notBnVars

\* The reduction of var returns: the rest of forward runs to its end.
BnReduceVar(p) ==
    /\ bn_proc[p].pc = "var" /\ Available(comm, p)
    /\ \E r \in { BatchNormalization_train_end(bn[p], bn_proc[p].xc, bn_proc[p].mu,
                                               Allreduce(comm, p)) } :
         /\ bn' = [bn EXCEPT ![p] = r.l]
         /\ bn_proc' = [bn_proc EXCEPT ![p].y = r.y, ![p].pc = "idle", ![p].round = @ + 1]
    /\ comm' = Take(comm, p)
    /\ UNCHANGED bn_plan
    /\ UNCHANGED notBnVars

\* One step of process p.
BnStep(p) ==
    \/ BnForwardLocal(p)
    \/ BnForwardSync(p)
    \/ BnReduceN(p)
    \/ BnReduceMean(p)
    \/ BnReduceVar(p)

BnNext == \E p \in Procs : BnStep(p)

SpecBN == BnInit /\ [][BnNext]_vars

\* Whether process p can take a step: between two calls it has a call left to make, inside
\* forward the reduction it waits in is complete. This is ENABLED <<BnStep(p)>>_vars.
BnCanStep(p) ==
    IF bn_proc[p].pc = "idle" THEN bn_proc[p].round < BnMaxRounds ELSE Available(comm, p)

\* A step of process p: the only steps that change bn_proc[p].
BnTurn(p) == bn_proc'[p] # bn_proc[p]

\* Every rank is an operating-system process of its own that keeps running: a step it
\* can take (a call it is about to make, a reduction that is complete) it does take.
\* This is weak fairness of every process's step, WF_vars(BnStep(p)), written out with
\* BnCanStep for the enabling condition, beside WF_vars of the entry into the reductions.
SpecBNFair ==
    /\ SpecBN
    /\ \A p \in Procs : WF_vars(BnForwardSync(p))
    /\ \A p \in Procs : ([]<>(~BnCanStep(p))) \/ ([]<><<BnTurn(p)>>_vars)

RECURSIVE ConcatShards(_)
\* The concatenation along the batch axis of the latest inputs of processes 1..k.
ConcatShards(k) == IF k = 0 THEN <<>> ELSE ConcatShards(k - 1) \o bn_proc[k].x

\* Every process has returned from its r-th forward call and made no later call.
AllReturned(r) == \A q \in Procs : bn_proc[q].pc = "idle" /\ bn_proc[q].round = r

\* One forward in training mode without a reduction on the concatenated batch.
OnConcatenation(p) == BatchNormalization_forward_local(bn[p], ConcatShards(NProcs), "train")

\* C10: with sync_stats, once all processes returned from a training-mode forward on their
\* shards, every process holds the mean and the variance of the concatenation of the shards
\* and its output is its rows of one forward on the concatenated batch.
C10_SyncEqualsConcatenation ==
    \A r \in 1..BnMaxRounds :
        (AllReturned(r) /\ bn_plan[r].mode = "train" /\ bn[1].sync_stats) =>
            \A p \in Procs :
                /\ bn_proc[p].mu = mean_local(BnRows(bn[p], ConcatShards(NProcs)), bn[p].ci)
                /\ bn[p].std = OnConcatenation(p).l.std
                /\ bn_proc[p].y.v = SubSeq(OnConcatenation(p).y.v,
                                           Len(ConcatShards(p - 1)) + 1,
                                           Len(ConcatShards(p)))

\* All processes returned from a synchronised training forward on shards of different
\* sizes whose local mean is not the global one.
C10_Witness ==
    \E r \in 1..BnMaxRounds :
        /\ AllReturned(r) /\ bn_plan[r].mode = "train" /\ bn[1].sync_stats
        /\ Len(bn_proc[1].x) # Len(bn_proc[2].x)
        /\ bn[1].spatial
        /\ mean_local(BnRows(bn[1], bn_proc[1].x), bn[1].ci) # bn_proc[1].mu

\* Process p returns from a forward call made in evaluate mode in this step.
EvaluateReturns(p) ==
    /\ bn_proc'[p].round = bn_proc[p].round + 1
    /\ bn_plan[bn_proc'[p].round].mode = "evaluate"

\* C11: a forward call in evaluate mode posts nothing to the communicator and leaves the
\* layer (running_mean, running_var, gamma, beta, xn, std) as it was; when the call before
\* it was an evaluate-mode call on the same input, it returns the same output.
C11_EvaluateIsStateless ==
    [][\A p \in Procs :
         EvaluateReturns(p) =>
             /\ comm' = comm
             /\ bn'[p] = bn[p]
             /\ (/\ bn_proc[p].round >= 1
                 /\ bn_plan[bn_proc[p].round].mode = "evaluate"
                 /\ bn_proc'[p].x = bn_proc[p].x) => bn_proc'[p].y = bn_proc[p].y]_vars

\* A process has made two consecutive evaluate-mode calls on the same input.
C11_Witness ==
    \E p \in Procs :
        /\ bn_proc[p].round = 2 /\ bn_proc[p].pc = "idle"
        /\ bn_plan[1].mode = "evaluate" /\ bn_plan[2].mode = "evaluate"
        /\ bn_plan[1].batch = bn_plan[2].batch
        /\ IsArr(bn_proc[p].y)

\* ---------------------------------------------------------------------------------------
\* Composite-block initialize: shape compatibility of the paths

\* The output shape of path i read from the children: the shape of its last layer, or the
\* block's prev_shape for a path without layers.
PathOutShape(b, i) ==
    IF Len(b.paths[i]) = 0 THEN b.prev_shape ELSE b.paths[i][Len(b.paths[i])].shape

\* The path output shapes are all identical (AdditionBlock), or identical in every
\* dimension but the first (ConcatenationBlock).
Compatible(b) ==
    \A i \in 1..Len(b.paths) :
        IF b.kind = "add" THEN PathOutShape(b, i) = PathOutShape(b, 1)
        ELSE Tail(PathOutShape(b, i)) = Tail(PathOutShape(b, 1))

\* C12: after initialize(prev_shape) of a composite block the first layer of every path was
\* initialized with the block's own prev_shape; the call succeeded exactly when the path
\* output shapes are compatible, and a call that failed with the assertion error left the
\* block's shape as it was before the call.
C12_InitializeChecksPathShapes ==
    blk_last.op = "initialize" =>
        /\ \A i \in 1..Len(blk.paths) :
               Len(blk.paths[i]) > 0 => blk.paths[i][1].prev_shape = blk.prev_shape
        /\ blk.initialized = Compatible(blk)
        /\ blk.failed = ~Compatible(blk)
        /\ ~Compatible(blk) => blk.shape = blk_last.before.shape

\* A ConcatenationBlock whose initialize succeeded on (3,) fails on (3, 1, 1).
C12_Witness ==
    /\ blk_last.op = "initialize"
    /\ blk.kind = "concat"
    /\ blk.failed
    /\ blk_last.before.initialized
    /\ blk.shape = <<6>>

\* ---------------------------------------------------------------------------------------
\* Filters larger than the padded input

\* C13: a pooling layer never holds a shape with a non-positive output height or width:
\* an initialize whose computed output size is below 1 fails and does not assign the shape.
C13_NoNonPositiveOutputDimension ==
    mp.shape # <<>> => mp.shape[2] >= 1 /\ mp.shape[3] >= 1

\* ---------------------------------------------------------------------------------------
\* Pool shapes constructed with a zero

\* C16: a pooling layer constructed with zero pool height has, after every
\* initialize(prev_shape), kh equal to the hi of the prev_shape of that call.
C16_ZeroPoolHeightFollowsInput ==
    (mp_last.op = "initialize" /\ mp.arg_pool_shape[1] = 0) => mp.kh = mp_last.prev_shape[2]

\* ---------------------------------------------------------------------------------------
\* Unequal strides under the fused strategy

\* C14: a Conv2D bound to the fused strategy with vstride # hstride never reaches a state in
\* which forward can be called (it is rejected at construction or at initialize), and a
\* fused forward made with unequal strides returns the backend's assertion error.
C14_FusedRejectsUnequalStrides ==
    /\ (conv.initialized /\ conv.forward = "_forward_cg") => conv.vstride = conv.hstride
    /\ (/\ conv_last.op = "forward" /\ conv.forward = "_forward_cg"
        /\ conv.vstride # conv.hstride) => conv_last.ret = Raised("AssertionError")

\* ---------------------------------------------------------------------------------------
\* The output-size formula of Conv2D, MaxPool2D and AveragePool2D

\* The sizes initialize reads: hi from prev_shape, kh, padding and stride from the constructor.
GeoInit ==
    /\ \E hi \in 1..GeoMaxSize, kh \in 1..GeoMaxSize, pad \in 0..GeoMaxPad,
          stride \in 1..GeoMaxStride :
         geo = [hi |-> hi, kh |-> kh, pad |-> pad, stride |-> stride, done |-> FALSE, ho |-> 0]
    /\ MpIdle
    /\ FcIdle
    /\ BlockIdle
    /\ ConvIdle
    /\ BnIdle
    /\ GradIdle
    /\ DataIdle
    /\ LateIdle

\* self.ho = floor((self.hi + 2 * self.vpadding - self.kh) / self.vstride) + 1
GeoInitialize ==
    /\ ~geo.done
    /\ geo' = [geo EXCEPT !.done = TRUE, !.ho = OutSize(geo.hi, geo.kh, geo.pad, geo.stride)]
    /\ UNCHANGED notGeoVars

GeoNext == GeoInitialize

SpecGeo == GeoInit /\ [][GeoNext]_vars

\* The window offsets t >= 0 whose window of kh rows fits in the padded input.
WindowOffsets(hi, kh, pad, stride) ==
    { t \in 0..(hi + 2 * pad) : t * stride + kh <= hi + 2 * pad }

\* C15: for hi >= 1, kh >= 1, pad >= 0, stride >= 1 with hi + 2*pad >= kh the computed output
\* size floor((hi + 2*pad - kh) / stride) + 1 is the number of window offsets t >= 0 with
\* t*stride + kh <= hi + 2*pad.
C15_OutSizeCountsWindows ==
    (geo.done /\ geo.hi + 2 * geo.pad >= geo.kh) =>
        geo.ho = Cardinality(WindowOffsets(geo.hi, geo.kh, geo.pad, geo.stride))

\* A computation whose stride does not divide the span, with more than one window.
C15_Witness ==
    /\ geo.done
    /\ geo.hi + 2 * geo.pad >= geo.kh
    /\ (geo.hi + 2 * geo.pad - geo.kh) % geo.stride # 0
    /\ geo.ho >= 2

\* ---------------------------------------------------------------------------------------
\* Batch sizes that vary from call to call

\* C17: after one initialize, every forward(x) on a batch of b samples, whatever the batch
\* sizes of the earlier calls and the configured batch size, returns an output with b rows,
\* and every backward(dy) of a layer that needs dx returns an input gradient with b rows.
C17_VaryingBatchAccepted ==
    /\ fc_last.op = "forward" =>
          /\ IsArr(fc_last.y)
          /\ Len(fc_last.y.v) = Len(fc_last.x)
    /\ (fc_last.op = "backward" /\ fc.need_dx) =>
          /\ IsArr(fc_last.dx)
          /\ Len(fc_last.dx.v) = Len(fc_last.dy)

\* ---------------------------------------------------------------------------------------
\* The parameter gradients of FC, Conv2D and BatchNormalization over a training loop

\* Before initialize: the constructed layer (BatchNormalization keeps its arrays from
\* initialize on).
GradInit ==
    /\ \/ \E a \in FCCtorArgs : gl = [type |-> "FC", initialized |-> FALSE, l |-> FC_init(a)]
       \/ \E a \in ConvCtorArgs :
            gl = [type |-> "Conv2D", initialized |-> FALSE, l |-> Conv2D_init(a)]
       \/ gl = [type |-> "BatchNormalization", initialized |-> FALSE, l |-> PyNone]
    /\ gl_last = [op |-> "init", b |-> 0, backs |-> 0, cached |-> FALSE]
    /\ gl_calls = 0
    /\ MpIdle
    /\ FcIdle
    /\ BlockIdle
    /\ ConvIdle
    /\ BnIdle
    /\ GeoIdle
    /\ DataIdle
    /\ LateIdle

\* layer.initialize(prev_shape, need_dx), once; Conv2D under either strategy and as the
\* first layer of its model (need_dx False: backward ends after the parameter gradients).
GradInitialize ==
    /\ ~gl.initialized
    /\ \/ /\ gl.type = "FC"
          /\ \E ps \in FCPrevShapes, nd \in BOOLEAN :
               gl' = [gl EXCEPT !.initialized = TRUE,
                                !.l = FC_initialize(gl.l, ps, nd, 1, BatchSize)]
       \/ /\ gl.type = "Conv2D"
          /\ \E ps \in ConvPrevShapes, e \in BOOLEAN :
               gl' = [gl EXCEPT !.initialized = TRUE,
                                !.l = Conv2D_initialize(gl.l, ps, FALSE, 1, BatchSize, e)]
       \/ /\ gl.type = "BatchNormalization"
          /\ \E ps \in BnPrevShapes, nd \in BOOLEAN :
               gl' = [gl EXCEPT !.initialized = TRUE,
                                !.l = BatchNormalization_initialize(ps, nd, FALSE)]
    /\ gl_last' = [gl_last EXCEPT !.op = "initialize"]
    /\ UNCHANGED gl_calls
    /\ UNCHANGED notGradVars

\* FC.backward and BatchNormalization.forward as the layer after the call and the value
\* returned.
FCBackwardReturn(l, g) == [l |-> [l EXCEPT !.dw = g.dw, !.db = g.db], ret |-> g.dx]

BnForwardReturn(r) == [l |-> r.l, ret |-> r.y]

\* The input batch number `seed`, which has b samples: a (b, fan_in) matrix for FC, a flat
\* (b, ci, hi, wi) tensor for the others.
GradInput(g, b, seed) ==
    IF g.type = "FC" THEN XMatrix(seed, b, g.l.prev_shape[1])
    ELSE ConvInput(seed, b * g.l.ci * g.l.hi * g.l.wi)

\* The layer and the returned value after forward(x) in train mode on a batch of b samples.
GradForwardResult(g, b, x) ==
    IF g.type = "FC" THEN [l |-> [g.l EXCEPT !.x = Arr(x)], ret |-> FC_forward(g.l, x)]
    ELSE IF g.type = "Conv2D" THEN Conv2D_forward(g.l, x, b)
    ELSE BnForwardReturn(BatchNormalization_forward_local(g.l, x, "train"))

\* The layer and the returned value after backward(dy), dy shaped like the output of the
\* latest forward, which had b samples.
GradBackwardResult(g, b, dy) ==
    IF g.type = "FC"
    THEN FCBackwardReturn(g.l, FC_backward(g.l, g.l.x.v, Reshape2(dy, b)))
    ELSE IF g.type = "Conv2D" THEN Conv2D_backward(g.l, dy, b)
    ELSE BatchNormalization_backward(g.l, dy)

\* The number of elements of one output sample.
GradOutSize(g) ==
    IF g.type = "FC" THEN g.l.shape[1]
    ELSE IF g.type = "Conv2D" THEN g.l.co * g.l.ho * g.l.wo
    ELSE g.l.ci * g.l.hi * g.l.wi

\* y = forward(x) in train mode on a batch of any size.
GradForward ==
    /\ gl.initialized
    /\ gl.type = "Conv2D" => (gl.l.ho >= 1 /\ gl.l.wo >= 1)
    /\ gl_calls < GradMaxCalls
    /\ \E b \in 1..GradMaxBatch :
         \E x \in { GradInput(gl, b, b) } :
         \E r \in { GradForwardResult(gl, b, x) } :
             /\ gl' = [gl EXCEPT !.l = r.l]
             /\ gl_last' = [op |-> "forward", b |-> b, backs |-> gl_last.backs,
                            cached |-> (gl.type = "FC" \/ IsArr(r.ret))]
    /\ gl_calls' = gl_calls + 1
    /\ UNCHANGED notGradVars

\* backward(dy) after a forward that left its intermediates.
GradBackward ==
    /\ gl.initialized
    /\ gl_last.cached
    /\ gl_calls < GradMaxCalls
    /\ \E g \in 1..GradMaxDy :
         \E dy \in { DyTensor(g, gl_last.b * GradOutSize(gl)) } :
         \E r \in { GradBackwardResult(gl, gl_last.b, dy) } :
             /\ gl' = [gl EXCEPT !.l = r.l]
             /\ gl_last' = [op |-> "backward", b |-> gl_last.b, backs |-> gl_last.backs + 1,
                            cached |-> TRUE, dy |-> dy, ret |-> r.ret]
    /\ gl_calls' = gl_calls + 1
    /\ UNCHANGED notGradVars

GradNext == GradInitialize \/ GradForward \/ GradBackward

SpecGrad == GradInit /\ [][GradNext]_vars

\* The parameter gradients the layer holds.
GradientsOf(g) ==
    IF g.type = "BatchNormalization" THEN <<g.l.dgamma, g.l.dbeta>> ELSE <<g.l.dw, g.l.db>>

\* The layer with the values the earlier backward calls wrote taken away.
WithoutGradients(g) ==
    IF g.type = "BatchNormalization"
    THEN [g EXCEPT !.l = [g.l EXCEPT !.dgamma = PyNone, !.dbeta = PyNone]]
    ELSE [g EXCEPT !.l = [g.l EXCEPT !.dw = PyNone, !.db = PyNone]]

\* C18: the parameter gradients (dw, db, dgamma, dbeta) a backward(dy) of FC, Conv2D (both
\* strategies) and BatchNormalization leaves are those the same call leaves on a layer that
\* holds the same cached intermediates and no gradient of an earlier backward: they are a
\* function of dy and the cache alone; for FC, dw is x' dy.
C18_BackwardOverwritesGradients ==
    [][gl_last'.op = "backward" /\ gl_calls' = gl_calls + 1 =>
         /\ \E w \in { WithoutGradients(gl) } :
            \E r \in { GradBackwardResult(w, gl_last.b, gl_last'.dy) } :
                GradientsOf(gl') = GradientsOf([type |-> gl.type, l |-> r.l])
         /\ gl.type = "FC" =>
              gl'.l.dw = Arr(MatMul(Transpose(gl.l.x.v), Reshape2(gl_last'.dy, gl_last.b)))]_vars

\* A second backward on a BatchNormalization layer, after another forward.
C18_Witness ==
    /\ gl_last.op = "backward"
    /\ gl_last.backs >= 2
    /\ gl.type = "BatchNormalization"
    /\ IsArr(gl.l.dgamma)

\* ---------------------------------------------------------------------------------------
\* The totals of a composite block

\* One of the three totals of a layer.
CostOf(l, total) ==
    IF total = "nparams" THEN l.nparams ELSE IF total = "fwd_time" THEN l.fwd_time ELSE l.bwd_time

\* The sum of a total over all child layers of all paths of block b.
ChildrenCost(b, total) ==
    SumTo([i \in 1..Len(b.paths) |->
              SumTo([k \in 1..Len(b.paths[i]) |-> CostOf(b.paths[i][k], total)],
                    Len(b.paths[i]))],
          Len(b.paths))

\* C19: after every initialize of an AdditionBlock or ConcatenationBlock, also a second one
\* on the same block, its nparams, fwd_time and bwd_time are the sums of those of all its
\* child layers.
C19_TotalsAreSumsOverChildren ==
    blk_last.op = "initialize" =>
        \A total \in {"nparams", "fwd_time", "bwd_time"} :
            CostOf(blk, total) = ChildrenCost(blk, total)

(***************************************************************************)
(* Dataset.batch_generator (src/datasets/NN_dataset.py): every rank runs    *)
(* its own generator over the same data and the same index order s, and     *)
(* takes its slice of every global batch.                                   *)
(***************************************************************************)
\* A slice bound as Python reads it on a sequence of n elements.
PyIndex(i, n) == IF i < 0 THEN (IF i + n < 0 THEN 0 ELSE i + n) ELSE (IF i > n THEN n ELSE i)

\* s[start:end]
PySlice(s, start, end) ==
    [k \in 1..(IF PyIndex(end, Len(s)) > PyIndex(start, Len(s))
               THEN PyIndex(end, Len(s)) - PyIndex(start, Len(s)) ELSE 0) |->
        s[PyIndex(start, Len(s)) + k]]

\* The index orders np.random.shuffle may leave in s, the same on every rank: the rotations
\* of 0..n-1 and their reversals (the identity is s without shuffle).
Shuffles(n) ==
    { [i \in 1..n |-> (k + i - 1) % n] : k \in 0..DataMaxShift }
    \cup { [i \in 1..n |-> (k + n - i) % n] : k \in 0..DataMaxShift }

\* batch_size = local_batch_size * nprocs
batch_size(d) == d.local_batch_size * d.nprocs

\* last_batch_size = nsamples % batch_size, plus batch_size when it is below nprocs
last_batch_size(d) ==
    IF d.nsamples % batch_size(d) < d.nprocs
    THEN (d.nsamples % batch_size(d)) + batch_size(d)
    ELSE d.nsamples % batch_size(d)

\* end_for = nsamples - last_batch_size
end_for(d) == d.nsamples - last_batch_size(d)

\* start and end of rank's slice of the full batch that begins at batch_num.
FullBatchRange(d, rank, batch_num) ==
    [start |-> batch_num + rank * d.local_batch_size,
     end |-> batch_num + (rank + 1) * d.local_batch_size]

\* A variant of the last batch in which the ranks past the remainder start as if there were
\* no remainder.
LastBatchRange_NoRemainder(d, rank, llbs, remaining) ==
    IF rank < remaining
    THEN [start |-> end_for(d) + rank * (llbs + 1), end |-> end_for(d) + (rank + 1) * (llbs + 1)]
    ELSE [start |-> end_for(d) + rank * llbs, end |-> end_for(d) + (rank + 1) * llbs]

\* start and end of rank's slice of the last batch; llbs = last_batch_size // nprocs and
\* remaining = last_batch_size % nprocs: the first `remaining` ranks take one sample more.
LastBatchRange(d, rank, llbs, remaining) ==
    IF rank < remaining
    THEN [start |-> end_for(d) + rank * (llbs + 1), end |-> end_for(d) + (rank + 1) * (llbs + 1)]
    ELSE [start |-> end_for(d) + remaining * (llbs + 1) + (rank - remaining) * llbs,
          end |-> end_for(d) + remaining * (llbs + 1) + (rank - remaining + 1) * llbs]

\* What a yield hands out: the slice bounds, the sample indices s[start:end] and the
\* global batch size.
Yielded(d, range, size) ==
    [start |-> range.start, end |-> range.end,
     indices |-> PySlice(d.s, range.start, range.end), batch_size |-> size]

\* The generator of `rank` after one next(): inside the loop over the full batches it
\* yields the next one; after the loop it yields the last batch if last_batch_size > 0;
\* after that it is exhausted.
batch_generator_next(d, rank, g) ==
    IF g.pc = "batches" /\ g.batch_num < end_for(d)
    THEN [g EXCEPT !.batch_num = @ + batch_size(d),
                   !.out = Append(@, Yielded(d, FullBatchRange(d, rank, g.batch_num),
                                             batch_size(d)))]
    ELSE IF g.pc = "batches" /\ last_batch_size(d) > 0
    THEN [g EXCEPT !.pc = "last",
                   !.out = Append(@, Yielded(d, LastBatchRange(d, rank,
                                                               last_batch_size(d) \div d.nprocs,
                                                               last_batch_size(d) % d.nprocs),
                                             last_batch_size(d)))]
    ELSE [g EXCEPT !.pc = "done"]

\* The dataset, the launch (nprocs ranks, local_batch_size) and the index order of the pass;
\* every rank's generator is at its start.
DataInit ==
    /\ \E n \in 1..DataMaxSamples, l \in 1..DataMaxLocalBatch, np \in 1..DataMaxProcs :
         \E s \in Shuffles(n) :
             /\ ds = [nsamples |-> n, local_batch_size |-> l, nprocs |-> np, s |-> s]
             /\ gen = [rank \in 0..(np - 1) |-> [pc |-> "batches", batch_num |-> 0, out |-> <<>>]]
    /\ MpIdle
    /\ FcIdle
    /\ BlockIdle
    /\ ConvIdle
    /\ BnIdle
    /\ GeoIdle
    /\ GradIdle
    /\ LateIdle

\* A rank asks its generator for the next batch.
BatchGeneratorNext(rank) ==
    /\ gen[rank].pc # "done"
    /\ gen' = [gen EXCEPT ![rank] = batch_generator_next(ds, rank, gen[rank])]
    /\ UNCHANGED ds
    /\ UNCHANGED notDataVars

DataNext == \E rank \in DOMAIN gen : BatchGeneratorNext(rank)

SpecData == DataInit /\ [][DataNext]_vars

\* Every rank has exhausted its generator: one pass is over.
PassOver == \A rank \in DOMAIN gen : gen[rank].pc = "done"

\* The (rank, batch) pairs whose yielded indices hold sample i.
Holders(i) ==
    { rb \in { <<rank, k>> : rank \in DOMAIN gen, k \in 1..(DataMaxSamples + 1) } :
        /\ rb[2] <= Len(gen[rb[1]].out)
        /\ \E j \in 1..Len(gen[rb[1]].out[rb[2]].indices) :
               gen[rb[1]].out[rb[2]].indices[j] = i }

\* C20: with one index order shared by all ranks and nsamples >= nprocs, after one pass of
\* batch_generator every rank has yielded the same number of batches, within each global
\* batch the index ranges of two ranks do not overlap, and every sample index
\* 0..nsamples-1 is held by exactly one (rank, batch) pair, once.
C20_BatchesPartitionTheSamples ==
    (PassOver /\ ds.nsamples >= ds.nprocs) =>
        /\ \A p, q \in DOMAIN gen : Len(gen[p].out) = Len(gen[q].out)
        /\ \A p, q \in DOMAIN gen : \A k \in 1..Len(gen[p].out) :
               p < q => \/ gen[p].out[k].end <= gen[q].out[k].start
                        \/ gen[q].out[k].end <= gen[p].out[k].start
        /\ \A p \in DOMAIN gen : \A k \in 1..Len(gen[p].out) :
               /\ 0 <= gen[p].out[k].start /\ gen[p].out[k].end <= ds.nsamples
               /\ Len(gen[p].out[k].indices) = gen[p].out[k].end - gen[p].out[k].start
        /\ \A i \in 0..(ds.nsamples - 1) : Cardinality(Holders(i)) = 1

\* A pass of two ranks with a full batch and a last batch whose remainder is not zero.
C20_Witness ==
    /\ PassOver
    /\ ds.nprocs = 2
    /\ Len(gen[0].out) >= 2
    /\ last_batch_size(ds) % ds.nprocs # 0
    /\ ds.s[1] # 0

\* ---------------------------------------------------------------------------------------
\* The size of the local batches

\* C21: every local batch a rank has been handed holds at most local_batch_size samples, and
\* a batch that is not the last of the pass holds exactly local_batch_size samples.
C21_LocalBatchAtMostLocalBatchSize ==
    \A rank \in DOMAIN gen : \A k \in 1..Len(gen[rank].out) :
        /\ Len(gen[rank].out[k].indices) <= ds.local_batch_size
        /\ (k < Len(gen[rank].out) \/ gen[rank].pc = "batches") =>
               Len(gen[rank].out[k].indices) = ds.local_batch_size

(***************************************************************************)
(* The ids a composite block gives its children, with composite blocks     *)
(* inside its paths (src/NN_layer.py:578-604, 652-678).                    *)
(***************************************************************************)
IdsMaxId == 3      \* model.id is 0..IdsMaxId when the block's initialize is called
IdsMaxInits == 2   \* initialize calls made on the block

\* Dropout.__init__(rate), the rate in percent: self.rate = min(1., max(0., rate))
Dropout_init(rate) ==
    [type |-> "Dropout", rate |-> IF rate < 0 THEN 0 ELSE IF rate > 100 THEN 100 ELSE rate, shape |-> <<>>, need_dx |-> FALSE,
     id |-> 0, initialized |-> FALSE]

\* Dropout.initialize(prev_shape, need_dx)
Dropout_initialize(l, prev_shape, need_dx) ==
    [l EXCEPT !.need_dx = need_dx, !.shape = prev_shape, !.initialized = TRUE]

Drp == [type |-> "Dropout", rate |-> 50]

AddB(paths) == [type |-> "AdditionBlock", paths |-> paths]

CatB(paths) == [type |-> "ConcatenationBlock", paths |-> paths]

\* The blocks constructed: paths of Dropout layers and of composite blocks of them.
NestedCtorArgs ==
    { AddB(<<<<Drp>>, <<Drp, Drp>>>>),
      AddB(<<<<>>, <<Drp>>, <<Drp, Drp, Drp>>>>),
      CatB(<<<<Drp, Drp>>, <<Drp>>>>),
      CatB(<<<<Drp>>, <<>>, <<Drp>>>>),
      AddB(<<<<Drp, AddB(<<<<Drp>>, <<Drp>>>>), Drp>>, <<Drp>>>>),
      AddB(<<<<AddB(<<<<Drp>>, <<>>>>)>>, <<Drp, Drp>>>>),
      CatB(<<<<Drp, CatB(<<<<Drp>>, <<Drp>>>>)>>, <<Drp>>>>),
      CatB(<<<<AddB(<<<<Drp, Drp>>, <<Drp>>>>), Drp>>, <<>>>>),
      AddB(<<<<Drp>>, <<CatB(<<<<Drp>>, <<Drp>>>>)>>>>) }

RECURSIVE Nested_init(_)
\* The constructors, innermost first: Dropout(rate), AdditionBlock(*paths),
\* ConcatenationBlock(*paths).
Nested_init(d) ==
    IF d.type = "Dropout" THEN Dropout_init(d.rate)
    ELSE [type |-> d.type,
          paths |-> [i \in 1..Len(d.paths) |->
                        [j \in 1..Len(d.paths[i]) |-> Nested_init(d.paths[i][j])]],
          id |-> 0, initialized |-> FALSE, prev_shape |-> <<>>, out_shapes |-> <<>>,
          shape |-> <<>>, out_co |-> <<>>, idx_co |-> <<>>]

\* The end of initialize of either block after the loops left r: model.id -= 1, the
\* assertion on the path shapes, then the block's shape.
NestedBlock_finish(r) ==
    IF r.l.type = "AdditionBlock"
    THEN IF \A i \in 1..Len(r.l.out_shapes) : r.l.out_shapes[i] = r.l.out_shapes[1]
         THEN [l |-> [r.l EXCEPT !.shape = r.l.out_shapes[1], !.initialized = TRUE],
               id |-> r.id - 1, raised |-> FALSE]
         ELSE [l |-> r.l, id |-> r.id - 1, raised |-> TRUE]
    ELSE IF \A i \in 1..Len(r.l.out_shapes) :
                Tail(r.l.out_shapes[i]) = Tail(r.l.out_shapes[1])
         THEN [l |-> [r.l EXCEPT !.out_co = OutCo(r.l.out_shapes),
                                 !.idx_co = CumSum(OutCo(r.l.out_shapes)),
                                 !.shape = <<SumTo(OutCo(r.l.out_shapes),
                                                   Len(r.l.out_shapes))>>
                                           \o Tail(r.l.out_shapes[1]),
                                 !.initialized = TRUE],
               id |-> r.id - 1, raised |-> FALSE]
         ELSE [l |-> r.l, id |-> r.id - 1, raised |-> TRUE]

RECURSIVE Nested_initialize(_, _, _)
RECURSIVE NestedPath(_, _, _)
RECURSIVE NestedPathStep(_, _, _)
RECURSIVE NestedPaths(_, _, _)
RECURSIVE NestedPathsStep(_, _, _)
\* l.initialize(prev_shape, need_dx) with model.id = id: the layer afterwards, model.id
\* afterwards, and whether the call raised. A block reads and advances model.id.
Nested_initialize(l, prev_shape, id) ==
    IF l.type = "Dropout"
    THEN [l |-> Dropout_initialize(l, prev_shape, TRUE), id |-> id, raised |-> FALSE]
    ELSE \* self.out_shapes = []; self.prev_shape = prev_shape; the loops; the end
         NestedPathsStep(l, 0,
             [p |-> <<>>, shape |-> <<>>, id |-> id, raised |-> FALSE, first |-> prev_shape])

\* `for i, l in enumerate(p)` from layer i on (i counts from 1, enumerate from 0):
\* l.id = self.model.id + i reads model.id as it is now, then l.initialize runs.
NestedPath(p, i, r) ==
    IF i > Len(p) THEN [p |-> p, shape |-> r.shape, id |-> r.id, raised |-> FALSE]
    ELSE NestedPathStep(p, i,
             Nested_initialize([p[i] EXCEPT !.id = r.id + (i - 1)], r.shape, r.id))

\* The rest of the inner loop after layer i's initialize gave s; an exception leaves it.
NestedPathStep(p, i, s) ==
    IF s.raised THEN [p |-> [p EXCEPT ![i] = s.l], shape |-> <<>>, id |-> s.id, raised |-> TRUE]
    ELSE NestedPath([p EXCEPT ![i] = s.l], i + 1, [shape |-> s.l.shape, id |-> s.id])

\* `for p in self.paths` from path k on, model.id being id: every path starts from the
\* block's prev_shape.
NestedPaths(b, k, id) ==
    IF k > Len(b.paths) THEN NestedBlock_finish([l |-> b, id |-> id])
    ELSE NestedPathsStep(b, k, NestedPath(b.paths[k], 1, [shape |-> b.prev_shape, id |-> id]))

\* The rest of the outer loop after path k gave r: self.out_shapes.append(prev_shape),
\* self.model.id += len(p). With k = 0 it is the start of initialize.
NestedPathsStep(b, k, r) ==
    IF k = 0
    THEN NestedPaths([b EXCEPT !.out_shapes = <<>>, !.prev_shape = r.first], 1, r.id)
    ELSE IF r.raised THEN [l |-> [b EXCEPT !.paths[k] = r.p], id |-> r.id, raised |-> TRUE]
    ELSE NestedPaths([b EXCEPT !.paths[k] = r.p, !.out_shapes = Append(@, r.shape)],
                     k + 1, r.id + Len(b.paths[k]))

\* The block constructed, model.id at some value, initialize not yet called.
IdsInit ==
    /\ \E a \in NestedCtorArgs : nb = [b |-> Nested_init(a), inits |-> 0, raised |-> FALSE]
    /\ nb_id \in 0..IdsMaxId
    /\ LayersIdle
    /\ BgIdle
    /\ EsIdle

\* block.initialize(prev_shape, need_dx); the same block may be initialized again.
NbInitialize ==
    /\ nb.inits < IdsMaxInits
    /\ ~nb.raised
    /\ \E ps \in BlockPrevShapes :
         \E r \in { Nested_initialize(nb.b, ps, nb_id) } :
             /\ nb' = [b |-> r.l, inits |-> nb.inits + 1, raised |-> r.raised]
             /\ nb_id' = r.id
    /\ UNCHANGED notIdsVars

IdsNext == NbInitialize

SpecIds == IdsInit /\ [][IdsNext]_vars

RECURSIVE ChildIds(_, _, _)
\* The ids of the child layers of block b from layer j of path i on, the layers inside
\* nested blocks included, as a sequence.
ChildIds(b, i, j) ==
    IF i > Len(b.paths) THEN <<>>
    ELSE IF j > Len(b.paths[i]) THEN ChildIds(b, i + 1, 1)
    ELSE <<b.paths[i][j].id>>
         \o (IF b.paths[i][j].type = "Dropout" THEN <<>> ELSE ChildIds(b.paths[i][j], 1, 1))
         \o ChildIds(b, i, j + 1)

Distinct(q) == \A i, j \in 1..Len(q) : i # j => q[i] # q[j]

\* C22: after initialize of a composite block every child layer, the layers inside a
\* nested composite block included, has an id no other child layer has, and model.id is
\* the largest id assigned.
C22_ChildIdsDistinctAndCounterAtLargest ==
    (nb.inits > 0 /\ ~nb.raised) =>
        \E ids \in { ChildIds(nb.b, 1, 1) } :
            /\ Distinct(ids)
            /\ \A k \in 1..Len(ids) : ids[k] <= nb_id
            /\ \E k \in 1..Len(ids) : ids[k] = nb_id

\* The same for the blocks without a composite block in a path.
C22_FlatBlocksOnly ==
    (nb.inits > 0 /\ ~nb.raised
        /\ \A i \in 1..Len(nb.b.paths) : \A j \in 1..Len(nb.b.paths[i]) :
               nb.b.paths[i][j].type = "Dropout") =>
        \E ids \in { ChildIds(nb.b, 1, 1) } :
            /\ Distinct(ids)
            /\ \A k \in 1..Len(ids) : ids[k] <= nb_id
            /\ \E k \in 1..Len(ids) : ids[k] = nb_id

\* C23: a forward or backward call made on a layer before its initialize has completed
\* does not return a value: it ends in an exception.
C23_NoResultBeforeInitialize ==
    conv_last.op = "early" => conv_last.ret.kind \notin {"None", "ndarray"}

\* The reduction a process at position pc of forward waits in.
TagAt(pc) == IF pc = "N" THEN "N" ELSE IF pc = "mu" THEN "mean" ELSE "var"

\* The reductions in progress match one to one: the k-th of every process is the same
\* reduction over buffers of the same length; a process inside forward is in a training
\* call with sync_stats and waits in the reduction it entered last; a process between two
\* calls has left every reduction it entered.
ReductionsMatch ==
    /\ \A p, q \in Procs : \A k \in 1..Len(comm.posted[p]) :
           k <= Len(comm.posted[q]) =>
               /\ comm.posted[p][k].tag = comm.posted[q][k].tag
               /\ Len(comm.posted[p][k].v) = Len(comm.posted[q][k].v)
    /\ \A p \in Procs :
           IF bn_proc[p].pc = "idle"
           THEN Len(comm.posted[p]) = comm.taken[p]
           ELSE /\ bn_plan[bn_proc[p].round + 1].mode = "train"
                /\ bn[p].sync_stats
                /\ Len(comm.posted[p]) = comm.taken[p] + 1
                /\ comm.posted[p][Len(comm.posted[p])].tag = TagAt(bn_proc[p].pc)

\* The positions of forward follow each other as count, mean, variance, and a call in
\* evaluate mode (or without sync_stats) enters no reduction.
ReductionOrder ==
    \A p \in Procs :
        /\ bn_proc'[p].pc # bn_proc[p].pc =>
               <<bn_proc[p].pc, bn_proc'[p].pc>> \in
                   { <<"idle", "N">>, <<"N", "mu">>, <<"mu", "var">>, <<"var", "idle">> }
        /\ (bn_proc'[p].round = bn_proc[p].round + 1 /\ bn_proc[p].pc = "idle") =>
               /\ comm' = comm
               /\ \/ bn_plan[bn_proc[p].round + 1].mode = "evaluate"
                  \/ ~bn[p].sync_stats
        /\ (bn_proc[p].pc = "idle" /\ bn_proc'[p].pc = "N") =>
               bn_plan[bn_proc[p].round + 1].mode = "train"

\* C24: in a data-parallel run every process's training-mode forward with sync_stats enters
\* the same three reductions in the same order (sample count, mean, variance), the
\* reductions of the processes match one to one, every process that waits in a reduction
\* leaves it, and a forward in evaluate mode enters none.
C24_ReductionsMatchAndReturn ==
    /\ []ReductionsMatch
    /\ [][ReductionOrder]_vars
    /\ \A p \in Procs : (bn_proc[p].pc # "idle") ~> (bn_proc[p].pc = "idle")

\* Every process has been through the three reductions of a training call and through an
\* evaluate call.
C24_Witness ==
    /\ \A p \in Procs : bn_proc[p].round = BnMaxRounds /\ bn_proc[p].pc = "idle"
                         /\ bn[p].sync_stats
    /\ bn_plan[1].mode = "train"
    /\ bn_plan[BnMaxRounds].mode = "evaluate"

\* Every index of a reorder table lies inside an axis of `extent` entries.
TableInside(t, extent) ==
    IF IsArr(t.x_reorder) THEN \A e \in DOMAIN t.x_reorder.v : t.x_reorder.v[e] < extent
    ELSE TRUE

\* C25: when the fused backward of a Conv2D with vstride = hstride runs, the multiply for
\* the weight gradient is given equal vertical and horizontal stride arguments, and every
\* index i + j*s of the two reorder tables lies inside the padded input.
C25_FusedBackwardStridesEqual ==
    (conv_last.op = "backward" /\ conv.backward = "_backward_cg"
        /\ conv.vstride = conv.hstride) =>
        \E hr \in { get_x_reorder_and_xstride(conv.kh, conv.ho, conv.vstride) } :
        \E vr \in { get_x_reorder_and_xstride(conv.kw, conv.wo, conv.hstride) } :
            /\ hr.xstride = vr.xstride
            /\ TableInside(hr, conv.hi + 2 * conv.vpadding)
            /\ TableInside(vr, conv.wi + 2 * conv.hpadding)

\* The part of C25 about the tables alone.
C25_TablesInsidePaddedInput ==
    (conv.initialized /\ conv.ho >= 1 /\ conv.wo >= 1) =>
        /\ TableInside(get_x_reorder_and_xstride(conv.kh, conv.ho, conv.vstride),
                       conv.hi + 2 * conv.vpadding)
        /\ TableInside(get_x_reorder_and_xstride(conv.kw, conv.wo, conv.hstride),
                       conv.wi + 2 * conv.hpadding)

(***************************************************************************)
(* BackgroundGenerator (src/datasets/NN_dataset.py:56-80): a thread that    *)
(* runs the wrapped generator ahead of its consumer through a bounded       *)
(* queue.                                                                  *)
(***************************************************************************)
BgMaxItems == 3      \* the wrapped generator yields 0..BgMaxItems items
BgMaxPrefetch == 2   \* max_prefetch is 1..BgMaxPrefetch
BgMaxCalls == 5      \* next() calls the consumer makes

\* The items the wrapped generator yields: item k is the number k.
Items(n) == [k \in 1..n |-> PyInt(k)]

\* A slip in the queue's bound: put never waits.
Queue_full_Never(items, maxsize) == FALSE

\* Queue.Queue(maxsize): put blocks while the queue holds maxsize items (maxsize > 0).
Queue_full(items, maxsize) == maxsize > 0 /\ Len(items) >= maxsize

\* BackgroundGenerator.__init__(generator, max_prefetch): the queue is empty and the thread
\* is started, at the head of the loop of run.
BackgroundGenerator_init(wrapped, max_prefetch) ==
    [max_prefetch |-> max_prefetch, queue |-> <<>>, wrapped |-> wrapped,
     generator |-> wrapped, pc |-> "for", item |-> PyNone]

\* The generator over n items is wrapped; the consumer has not called next() yet.
BgInit ==
    /\ \E n \in 0..BgMaxItems, m \in 1..BgMaxPrefetch : bg = BackgroundGenerator_init(Items(n), m)
    /\ cons = [pc |-> "idle", got |-> <<>>, stops |-> 0, calls |-> 0]
    /\ LayersIdle
    /\ IdsIdle
    /\ EsIdle

\* run: `for item in self.generator` takes the next item, or leaves the loop when the
\* generator is exhausted.
BgRunFor ==
    /\ bg.pc = "for"
    /\ bg' = IF bg.generator = <<>> THEN [bg EXCEPT !.pc = "put_none", !.item = PyNone]
             ELSE [bg EXCEPT !.pc = "put", !.item = Head(bg.generator),
                             !.generator = Tail(bg.generator)]
    /\ UNCHANGED cons
    /\ UNCHANGED notBgVars

\* run: self.queue.put(item) inside the loop, once the queue has room.
BgRunPut ==
    /\ bg.pc = "put"
    /\ ~Queue_full(bg.queue, bg.max_prefetch)
    /\ bg' = [bg EXCEPT !.queue = Append(@, bg.item), !.pc = "for", !.item = PyNone]
    /\ UNCHANGED cons
    /\ UNCHANGED notBgVars

\* run: self.queue.put(None) after the loop, once the queue has room; the thread ends.
BgRunPutNone ==
    /\ bg.pc = "put_none"
    /\ ~Queue_full(bg.queue, bg.max_prefetch)
    /\ bg' = [bg EXCEPT !.queue = Append(@, PyNone), !.pc = "done"]
    /\ UNCHANGED cons
    /\ UNCHANGED notBgVars

\* The consumer calls next(): it enters self.queue.get().
ConsNext ==
    /\ cons.pc = "idle" /\ cons.calls < BgMaxCalls
    /\ cons' = [cons EXCEPT !.pc = "get", !.calls = @ + 1]
    /\ UNCHANGED bg
    /\ UNCHANGED notBgVars

\* next(): self.queue.get() returns once the queue holds an entry; None raises
\* StopIteration, anything else is returned.
ConsGet ==
    /\ cons.pc = "get"
    /\ bg.queue # <<>>
    /\ bg' = [bg EXCEPT !.queue = Tail(@)]
    /\ cons' = IF Head(bg.queue).kind = "None"
               THEN [cons EXCEPT !.pc = "idle", !.stops = @ + 1]
               ELSE [cons EXCEPT !.pc = "idle", !.got = Append(@, Head(bg.queue))]
    /\ UNCHANGED notBgVars

\* The steps of the producer thread.
BgRun ==
    \/ BgRunFor
    \/ BgRunPut
    \/ BgRunPutNone

BgNext ==
    \/ BgRun
    \/ ConsNext
    \/ ConsGet

SpecBG == BgInit /\ [][BgNext]_vars

\* The producer thread is scheduled whenever it can run, and a get() that can return does.
SpecBGFair == SpecBG /\ WF_vars(BgRun) /\ WF_vars(ConsGet)

\* The entries of a queue that are items.
ItemsOf(q) == SelectSeq(q, LAMBDA e : e.kind # "None")

\* The item the thread holds between taking it from the generator and putting it.
Held == IF bg.pc = "put" THEN <<bg.item>> ELSE <<>>

\* C26: the consumer gets the items of the wrapped generator in order, each once: what it
\* has got, then what the queue holds, then what the thread holds, then what the generator
\* has left is the generator's sequence; StopIteration comes only after the last item; and
\* the queue never holds more than max_prefetch entries.
C26_ItemsInOrderOnceAndQueueBounded ==
    /\ cons.got \o ItemsOf(bg.queue) \o Held \o bg.generator = bg.wrapped
    /\ cons.stops > 0 => cons.got = bg.wrapped
    /\ Len(bg.queue) <= bg.max_prefetch

\* The consumer has got every item of a generator of BgMaxItems items and the
\* StopIteration after them.
C26_Witness ==
    /\ Len(bg.wrapped) = BgMaxItems
    /\ cons.got = bg.wrapped
    /\ cons.stops = 1

\* C27: under fair scheduling every next() call returns an item or raises StopIteration,
\* the calls made after the generator is exhausted included.
C27_EveryNextReturns == (cons.pc = "get") ~> (cons.pc = "idle")

\* The part of C27 up to the first StopIteration.
C27_NextReturnsUntilFirstStop == (cons.pc = "get" /\ cons.stops = 0) ~> (cons.pc = "idle")

(***************************************************************************)
(* EarlyStopping (src/pydtnn/lr_schedulers/early_stopping.py).             *)
(***************************************************************************)
EsMaxEpochs == 3     \* on_epoch_end calls made
EsMaxPatience == 2   \* patience is 0..EsMaxPatience
EsMaxLoss == 2       \* the finite losses are 1..EsMaxLoss

\* A metric name as the words "_" separates: "val_categorical_accuracy" is
\* <<"val", "categorical", "accuracy">>.
CategoricalAccuracy == <<"categorical", "accuracy">>

CategoricalCrossEntropy == <<"categorical", "cross", "entropy">>

\* The metrics a model is compiled with, in the order of its loss vectors.
LossMetricsLists ==
    { <<CategoricalAccuracy, CategoricalCrossEntropy>>,
      <<CategoricalCrossEntropy, CategoricalAccuracy>> }

\* The loss_metric names given to EarlyStopping.
LossMetricNames ==
    { CategoricalAccuracy, CategoricalCrossEntropy,
      <<"val">> \o CategoricalAccuracy, <<"val">> \o CategoricalCrossEntropy }

\* Floating-point values: finite numbers, the infinities, and nan (a diverged loss).
FNum(n) == [kind |-> "float", v |-> n]

FInf(sign) == [kind |-> "inf", sign |-> sign]

FNaN == [kind |-> "nan"]

\* The losses an epoch can end with.
LossValues == { FNum(n) : n \in 1..EsMaxLoss } \cup { FNaN }

\* Where a value stands among the finite losses and the infinities.
FKey(a) == IF a.kind = "inf" THEN a.sign * (EsMaxLoss + 2) ELSE a.v

\* a < b and a > b on floats: every comparison with nan is False.
FLt(a, b) == IF a.kind = "nan" \/ b.kind = "nan" THEN FALSE ELSE FKey(a) < FKey(b)

FGt(a, b) == FLt(b, a)

\* "accuracy" in name
HasAccuracy(name) == \E i \in 1..Len(name) : name[i] = "accuracy"

\* "val_" in name: a word "val" with an underscore after it
HasValPrefix(name) == \E i \in 1..(Len(name) - 1) : name[i] = "val"

\* An attribute that was never assigned.
Unset == [kind |-> "unset"]

\* EarlyStopping.__init__(loss_metric, patience): loss_metric_ is assigned only when the
\* first word of the name is "val".
EarlyStopping_init(loss_metric, patience) ==
    [loss_metric |-> loss_metric,
     is_val_metric |-> HasValPrefix(loss_metric),
     loss_metric_ |-> IF Head(loss_metric) = "val"
                      THEN [kind |-> "str", v |-> Tail(loss_metric)] ELSE Unset,
     patience |-> patience, epoch_count |-> 0, best_epoch |-> 0, stop_training |-> FALSE,
     best_loss |-> FInf(IF HasAccuracy(loss_metric) THEN -1 ELSE 1),
     best_weights_filename |-> PyNone]

\* `try: idx = loss_metrics.index(self.loss_metric_)  except: idx = 0`: reading the
\* unassigned attribute raises AttributeError, a name not in the list ValueError; both
\* are swallowed. The position counts from 0.
MetricIndex(e, loss_metrics) ==
    IF e.loss_metric_.kind = "unset" THEN 0
    ELSE IF \E i \in 1..Len(loss_metrics) : loss_metrics[i] = e.loss_metric_.v
         THEN (CHOOSE i \in 1..Len(loss_metrics) :
                   /\ loss_metrics[i] = e.loss_metric_.v
                   /\ \A j \in 1..(i - 1) : loss_metrics[j] # e.loss_metric_.v) - 1
         ELSE 0

\* The branch condition of on_epoch_end: the value is better than best_loss.
Improves(e, value) ==
    IF HasAccuracy(e.loss_metric) THEN FGt(value, e.best_loss) ELSE FLt(value, e.best_loss)

\* "./model-%s-weights-%s.npz" % (model.model_name, time.strftime("%Y%m%d"))
WeightsFilename(m) == [kind |-> "str", model_name |-> m.model_name, date |-> m.today]

\* model.store_weights_and_bias(filename) / model.load_weights_and_bias(filename), made at
\* epoch e.epoch_count while best_epoch is e.best_epoch: the call is logged, a store
\* writes the weights of the epoch into the file.
Model_call(m, op, e) ==
    [m EXCEPT !.calls = Append(@, [op |-> op, filename |-> e.best_weights_filename,
                                   epoch |-> e.epoch_count, best_epoch |-> e.best_epoch]),
              !.stored = IF op = "store" THEN PyInt(e.epoch_count) ELSE @]

\* The improving branch of on_epoch_end, the object e already holding the new best.
EarlyStopping_store(e, m) ==
    [es |-> e, model |-> Model_call(m, "store", e)]

\* on_epoch_end(model, optimizer, loss_metrics, train_loss, val_loss, rank)
EarlyStopping_on_epoch_end(e, m, idx, loss) ==
    IF Improves(e, loss[idx + 1])
    THEN EarlyStopping_store(
             [e EXCEPT !.epoch_count = @ + 1, !.best_loss = loss[idx + 1],
                       !.best_epoch = e.epoch_count + 1,
                       !.best_weights_filename =
                           IF @.kind = "None" THEN WeightsFilename(m) ELSE @], m)
    ELSE IF (e.epoch_count + 1) - e.best_epoch >= e.patience
         THEN [es |-> [e EXCEPT !.epoch_count = @ + 1, !.stop_training = TRUE],
               model |-> Model_call(m, "load", [e EXCEPT !.epoch_count = @ + 1])]
         ELSE [es |-> [e EXCEPT !.epoch_count = @ + 1], model |-> m]

\* The scheduler is constructed for a model compiled with a list of metrics.
EsInit ==
    /\ \E name \in LossMetricNames, patience \in 0..EsMaxPatience :
         es = EarlyStopping_init(name, patience)
    /\ \E lm \in LossMetricsLists :
         es_model = [model_name |-> "model", today |-> 20210101, loss_metrics |-> lm,
                     stored |-> PyNone, calls |-> <<>>]
    /\ es_last = [op |-> "init"]
    /\ LayersIdle
    /\ IdsIdle
    /\ BgIdle

\* The training loop ends an epoch: on_epoch_end with the losses of the epoch. The call
\* can be made again after stop_training was set.
EsOnEpochEnd ==
    /\ es.epoch_count < EsMaxEpochs
    /\ \E train_loss, val_loss \in [1..Len(es_model.loss_metrics) -> LossValues] :
         \E idx \in { MetricIndex(es, es_model.loss_metrics) } :
         \E r \in { EarlyStopping_on_epoch_end(es, es_model, idx,
                         IF es.is_val_metric THEN val_loss ELSE train_loss) } :
             /\ es' = r.es
             /\ es_model' = r.model
             /\ es_last' = [op |-> "on_epoch_end", train_loss |-> train_loss,
                            val_loss |-> val_loss, idx |-> idx,
                            compared |-> (IF es.is_val_metric THEN val_loss
                                          ELSE train_loss)[idx + 1],
                            before |-> es]
    /\ UNCHANGED notEsVars

EsNext == EsOnEpochEnd

SpecEs == EsInit /\ [][EsNext]_vars

\* The metric loss_metric names, without the val_ prefix.
MonitoredMetric == IF Head(es.loss_metric) = "val" THEN Tail(es.loss_metric) ELSE es.loss_metric

\* The position of that metric in the model's loss_metrics, counted from 1.
MonitoredPosition == CHOOSE i \in 1..Len(es_model.loss_metrics) :
                         es_model.loss_metrics[i] = MonitoredMetric

\* The monitored value of the latest epoch: the metric's entry of val_loss for a val_
\* metric, of train_loss otherwise.
MonitoredValue ==
    (IF Head(es.loss_metric) = "val" THEN es_last.val_loss
     ELSE es_last.train_loss)[MonitoredPosition]

\* stop_training after the latest call is what it was before, or the value v did not
\* improve on best_loss and patience epochs have passed since best_epoch.
StopFollows(v) ==
    es.stop_training =
        (\/ es_last.before.stop_training
         \/ /\ ~Improves(es_last.before, v)
            /\ es.epoch_count - es_last.before.best_epoch >= es.patience)

\* C28: stop_training is false until the first on_epoch_end call at which the monitored
\* value does not improve on best_loss and epoch_count - best_epoch >= patience; it is
\* true from that call on.
C28_StopsAtFirstStagnantEpoch ==
    /\ es_last.op = "init" => ~es.stop_training
    /\ es_last.op = "on_epoch_end" => StopFollows(MonitoredValue)

\* The same with the value on_epoch_end compared in place of the monitored value.
C28_WithComparedValue ==
    /\ es_last.op = "init" => ~es.stop_training
    /\ es_last.op = "on_epoch_end" => StopFollows(es_last.compared)

\* C29: every load_weights_and_bias call is made with a filename that is not None and that
\* an earlier store_weights_and_bias call was made with, and the latest store before it
\* was made at best_epoch.
C29_LoadFollowsStoreOfBestEpoch ==
    \A k \in 1..Len(es_model.calls) :
        es_model.calls[k].op = "load" =>
            /\ es_model.calls[k].filename.kind # "None"
            /\ \E j \in 1..(k - 1) :
                   /\ es_model.calls[j].op = "store"
                   /\ es_model.calls[j].filename = es_model.calls[k].filename
                   /\ es_model.calls[j].epoch = es_model.calls[k].best_epoch
                   /\ \A i \in (j + 1)..(k - 1) : es_model.calls[i].op # "store"

\* The same once a store has been made.
C29_AfterAStore ==
    \A k \in 1..Len(es_model.calls) :
        (es_model.calls[k].op = "load" /\ es_model.calls[1].op = "store") =>
            /\ es_model.calls[k].filename.kind # "None"
            /\ \E j \in 1..(k - 1) :
                   /\ es_model.calls[j].op = "store"
                   /\ es_model.calls[j].filename = es_model.calls[k].filename
                   /\ es_model.calls[j].epoch = es_model.calls[k].best_epoch
                   /\ \A i \in (j + 1)..(k - 1) : es_model.calls[i].op # "store"

\* C30: the value on_epoch_end compares with best_loss is the entry of the loss vector
\* (val_loss for a val_ metric, train_loss otherwise) at the position of the metric in
\* loss_metrics.
C30_ComparesTheMetricsEntry ==
    es_last.op = "on_epoch_end" => es_last.compared = MonitoredValue

\* The same for the val_ metrics alone.
C30_ValMetricsOnly ==
    (es_last.op = "on_epoch_end" /\ Head(es.loss_metric) = "val") =>
        es_last.compared = MonitoredValue

====
